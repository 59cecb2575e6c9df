-------------------------- MODULE CliProcessesProofs --------------------------
(***************************************************************************)
(* Theorems about CliProcesses for any processes, commands and deaths, and *)
(* any number of commands that write at the same time.                     *)
(***************************************************************************)
EXTENDS CliProcesses, SequenceTheorems, TLAPS

Labels == Ended \cup Critical \cup {"open", "print"}

Saving == {"save", "data", "tmp", "fill", "rename"}

Answers == [first : Nat, vs : Seq(Vectors)]
IndexFiles == [whole : BOOLEAN, vs : Seq(Vectors)]
Manifests == [state : {"absent", "empty", "torn", "whole"}, version : Nat]

TypeInv ==
  /\ cmd \in [Procs -> Commands \cup {Idle}]
  /\ at \in [Procs -> Labels]
  /\ version \in [Procs -> Nat]
  /\ mem \in [Procs -> Seq(Vectors)]
  /\ first \in [Procs -> Nat]
  /\ handle \in [Procs -> {"own", "shared", "moved", "gone"}]
  /\ manifest \in Manifests /\ tmp \in Manifests
  /\ \A v \in DOMAIN files : v \in Nat /\ files[v] \in IndexFiles
  /\ \A v \in DOMAIN snapshots : v \in Nat /\ snapshots[v] \in Seq(Vectors)
  /\ acked \subseteq Answers
  /\ owed \in [Procs -> SUBSET Answers]
  /\ orderly \in BOOLEAN

(* Which command is where: a create saves the empty version 0, the others  *)
(* save a later one.                                                       *)
Fits(p) ==
  /\ at[p] \notin Ended => cmd[p].vs \in Seq(Vectors)
  /\ at[p] = "remove" => cmd[p].name = "compact"
  /\ at[p] \in Saving \cup {"print"} => cmd[p].name # "search"
  /\ cmd[p].name = "create" => at[p] \in Ended \cup Saving \cup {"print"}
  /\ at[p] \in Saving => IF cmd[p].name = "create" THEN version[p] = 0 /\ mem[p] = <<>>
                         ELSE version[p] # 0

FitInv == \A p \in Procs : Fits(p)

(* The answer a is kept by the vectors s. *)
Keeps(s, a) ==
  /\ a.first + Len(a.vs) <= Len(s)
  /\ \A i \in 1..Len(a.vs) : s[a.first + i] = a.vs[i]

KeepsAll(s, answers) == \A a \in answers : Keeps(s, a)

FileKeeps(v, answers) == v \in DOMAIN files /\ files[v].whole => KeepsAll(files[v].vs, answers)

Told(p) == [first |-> first[p], vs |-> cmd[p].vs]

(* What is promised, or will be when it is printed. *)
Pending == {p \in Procs : /\ at[p] = "print" /\ cmd[p].name # "create"
                          /\ p \notin crossed \cup upset}
Promised == acked \cup {Told(p) : p \in Pending}

(* A writer that no other has overlapped is the only one, and finds        *)
(* everything as it left it.                                               *)
Sole(p) ==
  /\ Writers = {p}
  /\ at[p] \in {"load", "data", "fill"} => handle[p] = "own"
  /\ at[p] \in {"tmp", "fill", "rename"} =>
       version[p] \in DOMAIN files /\ files[version[p]] = Whole(mem[p])
  /\ at[p] = "fill" => tmp = EmptyManifest
  /\ at[p] = "rename" => tmp = WholeManifest(version[p])
  /\ at[p] \in Saving /\ cmd[p].name # "create" => Keeps(mem[p], Told(p))

SoleInv == \A p \in Writers \ crossed : Sole(p)

(* Whatever version a manifest file names, a writer has read of or is      *)
(* about to name, its file keeps all promises, if it is there and whole.   *)
Names(m) == m.state = "whole" /\ m.version # 0 => FileKeeps(m.version, Promised)

Holds(p) ==
  /\ at[p] \in {"load", "data", "tmp", "fill", "rename"} /\ version[p] # 0 =>
       FileKeeps(version[p], Promised)
  /\ at[p] = "load" /\ version[p] = 0 => Promised = {}
  /\ at[p] \in {"load", "data"} /\ handle[p] = "shared" => Promised = {}
  /\ at[p] # "load" /\ cmd[p].name # "create" => KeepsAll(mem[p], Promised)

PromiseInv ==
  /\ Names(manifest)
  /\ manifest \in {Absent, WholeManifest(0)} => Promised = {}
  /\ (\E p \in Writers : at[p] \in {"fill", "rename"}) => Names(tmp)
  /\ \A p \in Writers : Holds(p)

(* A search that nothing has surprised sees what it is owed. *)
Sees(p) ==
  /\ owed[p] \subseteq acked
  /\ at[p] = "load" => /\ handle[p] # "shared"
                       /\ IF version[p] = 0 THEN owed[p] = {} ELSE FileKeeps(version[p], owed[p])
  /\ at[p] \in {"run", "answered"} => KeepsAll(mem[p], owed[p])

SearchInv == \A p \in Procs \ upset : cmd[p].name = "search" => Sees(p)

Current == snapshots[manifest.version]

(* What is committed, and the files of committed versions: a create that   *)
(* died may have cut off the one of version 0, which is empty anyway.      *)
CommitInv ==
  /\ manifest = Absent \/ manifest = WholeManifest(manifest.version)
  /\ manifest = Absent => DOMAIN snapshots = {}
  /\ manifest # Absent => /\ DOMAIN snapshots = 0..manifest.version
                          /\ manifest.version \in DOMAIN files
  /\ 0 \in DOMAIN snapshots => snapshots[0] = <<>>
  /\ \A v \in DOMAIN snapshots :
       v \in DOMAIN files => files[v] = Whole(snapshots[v]) \/ (v = 0 /\ files[v] = Torn)

(* A writer has the last commit, and then its successor. *)
Extends(p) ==
  cmd[p].name # "create" =>
    /\ manifest # Absent
    /\ at[p] \in {"load", "run", "remove"} => version[p] = manifest.version
    /\ at[p] = "run" => mem[p] = Current
    /\ at[p] \in Saving => version[p] = manifest.version + 1

Unopened(p) ==
  \/ manifest = Absent
  \/ version[p] < manifest.version /\ version[p] \notin DOMAIN files
  \/ version[p] = 0 /\ 0 \in DOMAIN files /\ ~files[0].whole

Follows(p) ==
  /\ at[p] = "load" => version[p] \in DOMAIN snapshots
  /\ at[p] \in {"run", "answered"} /\ cmd[p].name = "search" =>
       version[p] \in DOMAIN snapshots /\ mem[p] = snapshots[version[p]]
  /\ at[p] = "unopened" => Unopened(p)

Ordered ==
  /\ Writers \cap crossed = {} /\ CommitInv
  /\ \A p \in Writers : Extends(p)
  /\ \A p \in Procs \ upset : Follows(p)

(* While no two writers have overlapped. *)
OrderInv == orderly => Ordered

CliInv == TypeInv /\ FitInv /\ SoleInv /\ PromiseInv /\ SearchInv /\ OrderInv

-----------------------------------------------------------------------------
LEMMA Concatenated ==
  ASSUME NEW S, NEW p \in Seq(S), NEW q \in Seq(S)
  PROVE  /\ p \o q \in Seq(S) /\ Len(p \o q) = Len(p) + Len(q)
         /\ Len(p) \in Nat /\ Len(q) \in Nat
         /\ \A i \in 1..Len(p) : (p \o q)[i] = p[i]
         /\ \A i \in 1..Len(q) : (p \o q)[Len(p) + i] = q[i]
  OBVIOUS

(* What a list keeps, it keeps when it grows. *)
LEMMA KeepsOn ==
  ASSUME NEW s \in Seq(Vectors), NEW u \in Seq(Vectors), NEW a \in Answers, Keeps(s, a)
  PROVE  Keeps(s \o u, a)
<1> DEFINE t == s \o u
<1>1. /\ Len(t) = Len(s) + Len(u) /\ Len(s) \in Nat /\ Len(u) \in Nat
      /\ \A i \in 1..Len(s) : t[i] = s[i]
  BY Concatenated
<1> HIDE DEF t
<1>2. a.first \in Nat /\ a.vs \in Seq(Vectors) /\ Len(a.vs) \in Nat
  BY DEF Answers
<1>3. ASSUME NEW i \in 1..Len(a.vs) PROVE t[a.first + i] = a.vs[i]
  <2>1. a.first + i \in 1..Len(s)
    BY <1>1, <1>2 DEF Keeps
  <2>. QED
    BY <1>1, <2>1 DEF Keeps
<1>4. Keeps(t, a)
  BY <1>1, <1>2, <1>3 DEF Keeps
<1>. QED
  BY <1>4 DEF t

(* What is added is kept behind the rest. *)
LEMMA KeepsAdded ==
  ASSUME NEW s \in Seq(Vectors), NEW u \in Seq(Vectors), NEW a,
         a.first = IF u = <<>> THEN 0 ELSE Len(s), a.vs = u
  PROVE  Keeps(s \o u, a)
<1> DEFINE t == s \o u
<1>1. /\ Len(t) = Len(s) + Len(u) /\ Len(s) \in Nat /\ Len(u) \in Nat
      /\ \A i \in 1..Len(u) : t[Len(s) + i] = u[i]
  BY Concatenated
<1>2. u = <<>> => Len(u) = 0
  BY EmptySeq
<1> HIDE DEF t
<1>3. Keeps(t, a)
  BY <1>1, <1>2 DEF Keeps
<1>. QED
  BY <1>3 DEF t

(* What a part of a list holds. *)
LEMMA Segment ==
  ASSUME NEW S, NEW s \in Seq(S), NEW m \in Nat, NEW k \in Nat, m + k <= Len(s)
  PROVE  /\ SubSeq(s, m + 1, m + k) \in Seq(S) /\ Len(SubSeq(s, m + 1, m + k)) = k
         /\ \A i \in 1..k : SubSeq(s, m + 1, m + k)[i] = s[m + i]
<1>1. \A i \in (m + 1)..(m + k) : s[i] \in S
  OBVIOUS
<1>2. /\ (IF m + 1 <= m + k THEN (m + k) - (m + 1) + 1 ELSE 0) = k
      /\ (m + k) - (m + 1) + 1 = k
      /\ \A i \in 1..k : (m + 1) + i - 1 = m + i
  OBVIOUS
<1>3. m + 1 \in Int /\ m + k \in Int
  OBVIOUS
<1>. QED
  BY <1>1, <1>2, <1>3, SubSeqProperties

(* Kept vectors are a part of the list. *)
LEMMA Kept ==
  ASSUME NEW s \in Seq(Vectors), NEW a \in Answers, Keeps(s, a)
  PROVE  a.vs = SubSeq(s, a.first + 1, a.first + Len(a.vs))
<1> DEFINE u == SubSeq(s, a.first + 1, a.first + Len(a.vs))
<1>1. /\ a.first \in Nat /\ a.vs \in Seq(Vectors) /\ Len(a.vs) \in Nat
      /\ a.first + Len(a.vs) <= Len(s)
  BY DEF Answers, Keeps
<1>2. /\ u \in Seq(Vectors) /\ Len(u) = Len(a.vs)
      /\ \A i \in 1..Len(a.vs) : u[i] = s[a.first + i]
  <2> DEFINE m == a.first
             k == Len(a.vs)
  <2>1. m \in Nat /\ k \in Nat /\ m + k <= Len(s)
    BY <1>1
  <2> HIDE DEF m, k
  <2>2. /\ SubSeq(s, m + 1, m + k) \in Seq(Vectors) /\ Len(SubSeq(s, m + 1, m + k)) = k
        /\ \A i \in 1..k : SubSeq(s, m + 1, m + k)[i] = s[m + i]
    BY <2>1, Segment
  <2>. QED
    BY <2>2 DEF m, k
<1> HIDE DEF u
<1>3. u = a.vs
  BY <1>1, <1>2, SeqEqual DEF Keeps
<1>. QED
  BY <1>3 DEF u

-----------------------------------------------------------------------------
(* Types. *)

LEMMA FileTypes ==
  /\ Torn \in IndexFiles /\ Mixed \in IndexFiles
  /\ \A s \in Seq(Vectors) : Whole(s) \in IndexFiles
  BY EmptySeq DEF Torn, Mixed, Whole, IndexFiles

LEMMA FilledTypes ==
  ASSUME NEW m, NEW v \in Nat, NEW n \in Filled(m, v)
  PROVE  n \in {WholeManifest(v), TornManifest} /\ n \in Manifests
  BY DEF Filled, WholeManifest, TornManifest, Manifests

LEMMA TypeInit == Init => TypeInv /\ FitInv
<1> SUFFICES ASSUME Init PROVE TypeInv /\ FitInv
  OBVIOUS
<1>1. /\ cmd \in [Procs -> Commands \cup {Idle}] /\ at \in [Procs -> Labels]
      /\ version \in [Procs -> Nat] /\ first \in [Procs -> Nat]
      /\ handle \in [Procs -> {"own", "shared", "moved", "gone"}]
  BY DEF Init, Labels, Ended
<1>2. mem \in [Procs -> Seq(Vectors)]
  BY EmptySeq DEF Init
<1>3. /\ DOMAIN files = {} /\ DOMAIN snapshots = {} /\ acked = {}
      /\ owed \in [Procs -> SUBSET Answers] /\ orderly \in BOOLEAN
  BY DEF Init
<1>4. \A p \in Procs : at[p] = "off" /\ cmd[p].name = "search"
  BY DEF Init, Idle
<1>5. manifest \in Manifests /\ tmp \in Manifests
  BY DEF Init, Absent, Manifests
<1>6. FitInv
  BY <1>4 DEF FitInv, Fits, Ended, Saving
<1>. QED
  BY <1>1, <1>2, <1>3, <1>5, <1>6 DEF TypeInv

(* A step of one process leaves the others alone. *)
LEMMA Frame ==
  ASSUME TypeInv, NEW p \in Procs, Step(p) \/ Die(p) \/ (\E c \in Commands : Start(p, c))
  PROVE  \A q \in Procs \ {p} : /\ at'[q] = at[q] /\ cmd'[q] = cmd[q]
                                /\ version'[q] = version[q] /\ mem'[q] = mem[q]
                                /\ first'[q] = first[q] /\ owed'[q] = owed[q]
<1> USE DEF TypeInv, Goto, disk, memory, history, promise
<1>1. CASE \E c \in Commands : Start(p, c)
  BY <1>1 DEF Start
<1>2. CASE ReadManifest(p) \/ Load(p) \/ Search(p) \/ Die(p)
  BY <1>2 DEF ReadManifest, Reads, Load, Search, Die
<1>3. CASE CompactList(p) \/ CompactRemove(p) \/ CompactFails(p) \/ CompactDone(p)
  BY <1>3 DEF CompactList, CompactRemove, CompactFails, CompactDone
<1>4. CASE Add(p) \/ AddPanics(p)
  BY <1>4 DEF Add, AddPanics
<1>5. CASE SaveCreate(p) \/ SavePart(p) \/ SaveData(p)
  BY <1>5 DEF SaveCreate, SavePart, SaveData
<1>6. CASE TmpCreate(p) \/ TmpData(p)
  BY <1>6 DEF TmpCreate, TmpData
<1>7. CASE Rename(p) \/ RenameFails(p) \/ Acknowledge(p)
  BY <1>7 DEF Rename, RenameFails, Acknowledge
<1>. QED
  BY <1>1, <1>2, <1>3, <1>4, <1>5, <1>6, <1>7 DEF Step

(* What only some steps change. *)
LEMMA FitStep ==
  ASSUME TypeInv, FitInv, [Next]_vars PROVE FitInv'
<1>1. CASE UNCHANGED vars
  BY <1>1 DEF vars, memory, FitInv, Fits
<1>2. ASSUME NEW p \in Procs, Step(p) \/ Die(p) \/ (\E c \in Commands : Start(p, c)) PROVE FitInv'
  <2>1. \A q \in Procs \ {p} : Fits(q)'
    BY <1>2, Frame DEF FitInv, Fits
  <2>2. Fits(p)
    BY DEF FitInv
  <2> USE DEF TypeInv, Fits, Goto, Ended, Saving, disk, memory
  <2>3. CASE \E c \in Commands : Start(p, c)
    <3>1. PICK c \in Commands : Start(p, c)
      BY <2>3
    <3>2. c.vs # Malformed => c.vs \in Seq(Vectors)
      BY CommandsAssumption
    <3>3. /\ cmd'[p] = c /\ version'[p] = 0 /\ mem'[p] = <<>>
          /\ at'[p] = IF c.vs = Malformed THEN "refused"
                      ELSE IF c.name = "create" THEN "save" ELSE "open"
      BY <3>1 DEF Start
    <3>4. Fits(p)'
      BY <3>2, <3>3
    <3>. QED
      BY <2>1, <3>4 DEF FitInv
  <2>4. CASE ReadManifest(p)
    <3>1. cmd' = cmd /\ at[p] = "open" /\ at'[p] \in {"load", "unopened"}
      BY <2>4 DEF ReadManifest, Reads
    <3>2. Fits(p)'
      BY <2>2, <3>1
    <3>. QED
      BY <2>1, <3>2 DEF FitInv
  <2>5. CASE Load(p) \/ Search(p) \/ Die(p) \/ AddPanics(p) \/ RenameFails(p)
    <3>1. /\ cmd' = cmd /\ at'[p] \in {"run", "unopened", "failed", "answered"}
          /\ at'[p] = "run" => at[p] = "load"
      BY <2>5 DEF Load, Search, Die, AddPanics, RenameFails
    <3>2. at[p] \notin {"off", "refused", "unopened", "failed", "answered"}
      BY <2>5 DEF Load, Search, Die, AddPanics, RenameFails, Runs, Running
    <3>3. Fits(p)'
      BY <2>2, <3>1, <3>2
    <3>. QED
      BY <2>1, <3>3 DEF FitInv
  <2>6. CASE CompactList(p) \/ CompactRemove(p) \/ CompactFails(p) \/ CompactDone(p)
    <3>1. /\ cmd' = cmd /\ version' = version /\ at[p] \in {"run", "remove"}
          /\ at'[p] \in {"remove", "failed", "answered"}
          /\ at'[p] = "remove" => cmd[p].name = "compact" \/ at[p] = "remove"
      BY <2>6 DEF CompactList, CompactRemove, CompactFails, CompactDone, Runs
    <3>2. Fits(p)'
      BY <2>2, <3>1
    <3>. QED
      BY <2>1, <3>2 DEF FitInv
  <2>7. CASE Add(p)
    <3>1. /\ cmd' = cmd /\ at[p] = "run" /\ at'[p] = "save" /\ version'[p] = version[p] + 1
          /\ cmd[p].name \in {"insert", "batch_insert"} /\ version[p] \in Nat
      BY <2>7 DEF Add, Runs
    <3>2. Fits(p)'
      BY <2>2, <3>1
    <3>. QED
      BY <2>1, <3>2 DEF FitInv
  <2>8. CASE SaveCreate(p) \/ SavePart(p) \/ SaveData(p) \/ TmpCreate(p) \/ TmpData(p)
    <3>1. /\ cmd' = cmd /\ version' = version /\ mem' = mem
          /\ at[p] \in Saving /\ at'[p] \in Saving
      BY <2>8 DEF SaveCreate, SavePart, SaveData, TmpCreate, TmpData
    <3>2. Fits(p)'
      BY <2>2, <3>1
    <3>. QED
      BY <2>1, <3>2 DEF FitInv
  <2>9. CASE Rename(p) \/ Acknowledge(p)
    <3>1. /\ cmd' = cmd /\ at[p] \in {"rename", "print"} /\ at'[p] \in {"print", "answered"}
      BY <2>9 DEF Rename, Acknowledge
    <3>2. Fits(p)'
      BY <2>2, <3>1
    <3>. QED
      BY <2>1, <3>2 DEF FitInv
  <2>. QED
    BY <1>2, <2>3, <2>4, <2>5, <2>6, <2>7, <2>8, <2>9 DEF Step
<1>. QED
  BY <1>1, <1>2 DEF Next

(* What a process has, *)
LEMMA ProcessTypes ==
  ASSUME TypeInv, FitInv, NEW p \in Procs, Step(p) \/ Die(p) \/ (\E c \in Commands : Start(p, c))
  PROVE  /\ cmd' \in [Procs -> Commands \cup {Idle}] /\ at' \in [Procs -> Labels]
         /\ version' \in [Procs -> Nat] /\ mem' \in [Procs -> Seq(Vectors)]
         /\ first' \in [Procs -> Nat] /\ owed' \in [Procs -> SUBSET Answers]
         /\ handle' \in [Procs -> {"own", "shared", "moved", "gone"}]
<1> USE DEF TypeInv, Goto, Labels, Ended, Critical, disk, memory, history, promise
<1>1. CASE \E c \in Commands : Start(p, c)
  <2>1. PICK c \in Commands : Start(p, c)
    BY <1>1
  <2>2. <<>> \in Seq(Vectors)
    BY EmptySeq
  <2>3. \E l \in {"save", "refused", "open"} : Goto(p, l)
    BY <2>1 DEF Start
  <2>4. at' \in [Procs -> Labels]
    BY <2>3
  <2>. QED
    BY <2>1, <2>2, <2>4 DEF Start
<1>2. CASE ReadManifest(p)
  <2>1. manifest.version \in Nat
    BY DEF Manifests
  <2>. QED
    BY <1>2, <2>1 DEF ReadManifest, Reads
<1>3. CASE Load(p)
  <2>1. version[p] \in DOMAIN files => files[version[p]].vs \in Seq(Vectors)
    BY DEF IndexFiles
  <2>2. Mixed.vs \in Seq(Vectors)
    BY EmptySeq DEF Mixed, Whole
  <2>3. mem' \in [Procs -> Seq(Vectors)]
    BY <1>3, <2>1, <2>2 DEF Load
  <2>. QED
    BY <1>3, <2>3 DEF Load
<1>4. CASE Search(p) \/ Die(p) \/ AddPanics(p) \/ RenameFails(p) \/ Acknowledge(p)
  BY <1>4 DEF Search, Die, AddPanics, RenameFails, Acknowledge
<1>5. CASE CompactList(p) \/ CompactRemove(p) \/ CompactFails(p) \/ CompactDone(p)
  BY <1>5 DEF CompactList, CompactRemove, CompactFails, CompactDone
<1>6. CASE Add(p)
  <2>1. at[p] = "run"
    BY <1>6 DEF Add, Runs
  <2>2. cmd[p].vs \in Seq(Vectors) /\ mem[p] \in Seq(Vectors)
    BY <2>1 DEF FitInv, Fits
  <2>3. mem[p] \o cmd[p].vs \in Seq(Vectors) /\ Len(mem[p]) \in Nat
    BY <2>2, Concatenated
  <2>. QED
    BY <1>6, <2>3 DEF Add
<1>7. CASE SaveCreate(p) \/ SavePart(p) \/ SaveData(p)
  BY <1>7 DEF SaveCreate, SavePart, SaveData
<1>8. CASE TmpCreate(p) \/ TmpData(p) \/ Rename(p)
  BY <1>8 DEF TmpCreate, TmpData, Rename
<1>. QED
  BY <1>1, <1>2, <1>3, <1>4, <1>5, <1>6, <1>7, <1>8 DEF Step

(* and what all have. *)
LEMMA CommitTypes ==
  ASSUME TypeInv, NEW p \in Procs, NEW m, Commits(p, m)
  PROVE  /\ \A v \in DOMAIN snapshots' : v \in Nat /\ snapshots'[v] \in Seq(Vectors)
         /\ acked' \subseteq Answers /\ orderly' \in BOOLEAN
<1>1. CASE m = WholeManifest(0)
  <2>1. snapshots' = [v \in {0} |-> <<>>] /\ acked' = {} /\ orderly' = (orderly \/ p \notin crossed)
    BY <1>1 DEF Commits
  <2>2. <<>> \in Seq(Vectors) /\ 0 \in Nat
    BY EmptySeq
  <2>. QED
    BY <2>1, <2>2
<1>2. CASE m # WholeManifest(0)
  <2>1. snapshots' = Put(snapshots, version[p], mem[p]) /\ acked' = acked /\ orderly' = orderly
    BY <1>2 DEF Commits
  <2>. QED
    BY <2>1 DEF TypeInv, Put
<1>. QED
  BY <1>1, <1>2

LEMMA SharedTypes ==
  ASSUME TypeInv, FitInv, NEW p \in Procs, Step(p) \/ Die(p) \/ (\E c \in Commands : Start(p, c))
  PROVE  /\ manifest' \in Manifests /\ tmp' \in Manifests
         /\ \A v \in DOMAIN files' : v \in Nat /\ files'[v] \in IndexFiles
         /\ \A v \in DOMAIN snapshots' : v \in Nat /\ snapshots'[v] \in Seq(Vectors)
         /\ acked' \subseteq Answers /\ orderly' \in BOOLEAN
<1> USE DEF disk, history, promise, crossing
<1>1. ASSUME UNCHANGED <<disk, snapshots, acked>>, orderly' \in BOOLEAN
      PROVE  /\ manifest' \in Manifests /\ tmp' \in Manifests
             /\ \A v \in DOMAIN files' : v \in Nat /\ files'[v] \in IndexFiles
             /\ \A v \in DOMAIN snapshots' : v \in Nat /\ snapshots'[v] \in Seq(Vectors)
             /\ acked' \subseteq Answers /\ orderly' \in BOOLEAN
  BY <1>1 DEF TypeInv
<1>2. CASE (\E c \in Commands : Start(p, c)) \/ ReadManifest(p)
  <2>1. UNCHANGED <<disk, snapshots, acked>> /\ orderly' \in BOOLEAN
    BY <1>2 DEF Start, ReadManifest, Reads, Joins, TypeInv
  <2>. QED
    BY <1>1, <2>1
<1>3. CASE \/ Load(p) \/ Search(p) \/ Die(p) \/ CompactList(p) \/ CompactFails(p) \/ CompactDone(p)
           \/ Add(p) \/ AddPanics(p) \/ RenameFails(p)
  <2>1. UNCHANGED <<disk, history>>
    BY <1>3 DEF Load, Search, Die, CompactList, CompactFails, CompactDone, Add, AddPanics, RenameFails
  <2>. QED
    BY <1>1, <2>1 DEF TypeInv
<1>4. CASE CompactRemove(p)
  <2>1. \A v \in DOMAIN files' : v \in DOMAIN files /\ files'[v] = files[v]
    BY <1>4 DEF CompactRemove
  <2>2. UNCHANGED <<manifest, tmp, history>>
    BY <1>4 DEF CompactRemove
  <2>. QED
    BY <2>1, <2>2 DEF TypeInv
<1>5. CASE SaveCreate(p) \/ SavePart(p) \/ SaveData(p)
  <2>1. mem[p] \in Seq(Vectors) /\ version[p] \in Nat
    BY DEF TypeInv
  <2>2. files' = files \/ \E x \in IndexFiles : files' = Put(files, version[p], x)
    BY <1>5, <2>1, FileTypes DEF SaveCreate, SavePart, SaveData
  <2>3. \A v \in DOMAIN files' : v \in Nat /\ files'[v] \in IndexFiles
    <3>1. CASE files' = files
      BY <3>1 DEF TypeInv
    <3>2. ASSUME NEW x \in IndexFiles, files' = Put(files, version[p], x)
          PROVE  \A v \in DOMAIN files' : v \in Nat /\ files'[v] \in IndexFiles
      <4>1. /\ DOMAIN files' = DOMAIN files \cup {version[p]}
            /\ \A v \in DOMAIN files' : files'[v] = IF v = version[p] THEN x ELSE files[v]
        BY <3>2 DEF Put
      <4>. QED
        BY <2>1, <4>1 DEF TypeInv
    <3>. QED
      BY <2>2, <3>1, <3>2
  <2>4. UNCHANGED <<manifest, tmp, snapshots, orderly>> /\ acked' \in {acked, {}}
    BY <1>5 DEF SaveCreate, SavePart, SaveData
  <2>. QED
    BY <2>3, <2>4 DEF TypeInv
<1>6. CASE TmpCreate(p)
  BY <1>6 DEF TmpCreate, TypeInv, EmptyManifest, Manifests
<1>7. CASE TmpData(p)
  <2>1. version[p] \in Nat
    BY DEF TypeInv
  <2>2. \/ UNCHANGED <<manifest, history>> /\ (tmp' = tmp \/ tmp' \in Filled(tmp, version[p]))
        \/ manifest' \in Filled(manifest, version[p]) /\ Commits(p, manifest') /\ tmp' = tmp
    BY <1>7 DEF TmpData
  <2>3. manifest' \in Manifests /\ tmp' \in Manifests
    BY <2>1, <2>2, FilledTypes DEF TypeInv
  <2>4. files' = files
    BY <1>7 DEF TmpData
  <2>. QED
    BY <2>2, <2>3, <2>4, CommitTypes DEF TypeInv
<1>8. CASE Rename(p)
  <2>1. manifest' = tmp /\ tmp' = Absent /\ files' = files /\ Commits(p, tmp)
    BY <1>8 DEF Rename
  <2>. QED
    BY <2>1, CommitTypes DEF TypeInv, Absent, Manifests
<1>9. CASE Acknowledge(p)
  <2>1. at[p] = "print" /\ UNCHANGED <<files, manifest, tmp, snapshots, orderly>>
    BY <1>9 DEF Acknowledge
  <2>2. cmd[p].vs \in Seq(Vectors)
    BY <2>1 DEF FitInv, Fits, Ended
  <2>3. Told(p) \in Answers
    BY <2>2 DEF Told, Answers, TypeInv
  <2>4. acked' \subseteq Answers
    BY <1>9, <2>3 DEF Acknowledge, Told, TypeInv
  <2>. QED
    BY <2>1, <2>4 DEF TypeInv
<1>. QED
  BY <1>2, <1>3, <1>4, <1>5, <1>6, <1>7, <1>8, <1>9 DEF Step

LEMMA TypeStep ==
  ASSUME TypeInv, FitInv, [Next]_vars PROVE TypeInv' /\ FitInv'
<1>1. CASE UNCHANGED vars
  BY <1>1, FitStep DEF vars, disk, memory, history, promise, crossing, TypeInv
<1>2. ASSUME NEW p \in Procs, Step(p) \/ Die(p) \/ (\E c \in Commands : Start(p, c))
      PROVE TypeInv'
  BY <1>2, ProcessTypes, SharedTypes DEF TypeInv
<1>. QED
  BY <1>1, <1>2, FitStep DEF Next

-----------------------------------------------------------------------------
(* A writer that no other has overlapped. *)

(* Who does not write leaves the directory alone. *)
LEMMA Bystander ==
  ASSUME TypeInv, FitInv, NEW p \in Procs, p \notin Writers,
         Step(p) \/ Die(p) \/ (\E c \in Commands : Start(p, c))
  PROVE  /\ UNCHANGED <<disk, snapshots>>
         /\ \A q \in Procs \ {p} : handle'[q] = handle[q]
<1> USE DEF disk, memory, history, promise
<1>1. at[p] \notin Saving /\ at[p] # "remove"
  BY DEF FitInv, Fits, Writers, Saving, Critical
<1>2. CASE (\E c \in Commands : Start(p, c)) \/ ReadManifest(p)
  BY <1>2 DEF Start, ReadManifest, Reads, TypeInv
<1>3. CASE Load(p) \/ Search(p) \/ Die(p) \/ CompactList(p) \/ CompactFails(p) \/ CompactDone(p)
  BY <1>3 DEF Load, Search, Die, CompactList, CompactFails, CompactDone
<1>4. CASE Add(p) \/ AddPanics(p) \/ RenameFails(p) \/ Acknowledge(p)
  BY <1>4 DEF Add, AddPanics, RenameFails, Acknowledge
<1>5. CASE CompactRemove(p) \/ SaveCreate(p) \/ SavePart(p) \/ SaveData(p)
  BY <1>1, <1>5 DEF CompactRemove, SaveCreate, SavePart, SaveData, Saving
<1>6. CASE TmpCreate(p) \/ TmpData(p) \/ Rename(p)
  BY <1>1, <1>6 DEF TmpCreate, TmpData, Rename, Saving
<1>. QED
  BY <1>2, <1>3, <1>4, <1>5, <1>6 DEF Step

(* A process becomes a writer as Joins says. *)
LEMMA Joining ==
  ASSUME TypeInv, FitInv, NEW p \in Procs,
         Step(p) \/ Die(p) \/ (\E c \in Commands : Start(p, c))
  PROVE  /\ \A q \in Procs \ {p} : q \in Writers' <=> q \in Writers
         /\ \/ /\ p \notin Writers /\ p \in Writers' /\ Joins(p)
               /\ UNCHANGED <<disk, snapshots, acked>>
               /\ \/ cmd'[p].name = "create" /\ at'[p] = "save"
                  \/ /\ at'[p] = "load" /\ handle'[p] = "own" /\ version'[p] = manifest.version
                     /\ manifest.state = "whole" /\ cmd'[p].name # "create"
            \/ (p \in Writers' => p \in Writers) /\ crossed' = crossed
<1>1. \A q \in Procs \ {p} : q \in Writers' <=> q \in Writers
  BY Frame DEF Writers
<1> USE DEF Writers, Critical, Goto, TypeInv, disk, memory, history, promise, crossing
<1>2. CASE \E c \in Commands : Start(p, c)
  <2>1. PICK c \in Commands : Start(p, c)
    BY <1>2
  <2>2. p \notin Writers
    BY <2>1 DEF Start, Running, Ended
  <2>3. CASE c.name = "create" /\ c.vs # Malformed
    BY <1>1, <2>1, <2>2, <2>3 DEF Start
  <2>4. CASE ~(c.name = "create" /\ c.vs # Malformed)
    BY <1>1, <2>1, <2>2, <2>4 DEF Start
  <2>. QED
    BY <2>3, <2>4
<1>3. CASE ReadManifest(p)
  <2>1. p \notin Writers /\ cmd'[p] = cmd[p] /\ cmd[p].name # "create"
    BY <1>3 DEF ReadManifest, FitInv, Fits, Ended, Saving
  <2>2. CASE manifest.state = "whole" /\ Reads(p, manifest.version) /\ cmd[p].name # "search"
    BY <1>1, <1>3, <2>1, <2>2 DEF ReadManifest, Reads
  <2>3. CASE manifest.state = "whole" /\ Reads(p, manifest.version) /\ cmd[p].name = "search"
    BY <1>1, <1>3, <2>1, <2>3 DEF ReadManifest, Reads
  <2>4. CASE manifest.state # "whole" /\ Goto(p, "unopened") /\ UNCHANGED crossing
    BY <1>1, <2>4
  <2>. QED
    BY <1>3, <2>2, <2>3, <2>4 DEF ReadManifest
<1>4. CASE Load(p) \/ Search(p) \/ Die(p) \/ CompactList(p) \/ CompactFails(p) \/ CompactDone(p)
  BY <1>1, <1>4 DEF Load, Search, Die, CompactList, CompactFails, CompactDone, Runs
<1>5. CASE Add(p) \/ AddPanics(p) \/ RenameFails(p) \/ Acknowledge(p)
  BY <1>1, <1>5 DEF Add, AddPanics, RenameFails, Acknowledge, Runs
<1>6. CASE CompactRemove(p) \/ SaveCreate(p) \/ SavePart(p) \/ SaveData(p)
  BY <1>1, <1>6 DEF CompactRemove, SaveCreate, SavePart, SaveData
<1>7. CASE TmpCreate(p) \/ TmpData(p) \/ Rename(p)
  BY <1>1, <1>7 DEF TmpCreate, TmpData, Rename
<1>. QED
  BY <1>2, <1>3, <1>4, <1>5, <1>6, <1>7 DEF Step

(* What it does is what it finds. *)
LEMMA SoleSelf ==
  ASSUME TypeInv, FitInv, TypeInv', NEW p \in Procs, Sole(p), Step(p), p \in Writers',
         \A q \in Procs \ {p} : q \in Writers' <=> q \in Writers
  PROVE  Sole(p)'
<1>1. Writers' = {p}
  BY DEF Sole, Writers
<1>2. at[p] \in Critical /\ cmd[p].name # "search"
  BY DEF Sole, Writers
<1> USE DEF TypeInv, Goto, Critical, Saving, disk, memory, history, promise
<1>3. CASE ReadManifest(p) \/ Search(p) \/ AddPanics(p) \/ CompactFails(p) \/ CompactDone(p)
  BY <1>1, <1>2, <1>3 DEF ReadManifest, Search, AddPanics, CompactFails, CompactDone, Runs, Writers
<1>4. CASE Rename(p) \/ RenameFails(p) \/ Acknowledge(p)
  BY <1>1, <1>2, <1>4 DEF Rename, RenameFails, Acknowledge, Writers
<1>5. CASE Load(p) \/ CompactList(p) \/ CompactRemove(p)
  <2>1. at'[p] \in {"run", "remove"} \/ at'[p] \notin Critical
    BY <1>5 DEF Load, CompactList, CompactRemove
  <2>. QED
    BY <1>1, <2>1 DEF Sole, Writers
<1>6. CASE Add(p)
  <2>1. /\ at'[p] = "save" /\ cmd'[p] = cmd[p] /\ mem'[p] = mem[p] \o cmd[p].vs
        /\ first'[p] = IF cmd[p].vs = <<>> THEN 0 ELSE Len(mem[p])
        /\ at[p] = "run"
    BY <1>6 DEF Add, Runs
  <2>2. cmd[p].vs \in Seq(Vectors) /\ mem[p] \in Seq(Vectors)
    BY <2>1 DEF FitInv, Fits, Ended
  <2>3. Keeps(mem[p] \o cmd[p].vs, Told(p)')
    <3>1. Told(p)'.first = first'[p] /\ Told(p)'.vs = cmd'[p].vs
      BY DEF Told
    <3>. QED
      BY <2>1, <2>2, <3>1, KeepsAdded
  <2>. QED
    BY <1>1, <2>1, <2>3 DEF Sole
<1>7. CASE SaveCreate(p)
  <2>1. ~\E s \in Sharers(p) : at[s] = "data"
    BY DEF Sharers, Sole, Writers, FitInv, Fits
  <2>2. handle'[p] = "own" /\ at'[p] = "data" /\ at[p] = "save"
    BY <1>7, <2>1 DEF SaveCreate, Sharers
  <2>3. UNCHANGED <<cmd, version, mem, first>>
    BY <1>7 DEF SaveCreate
  <2>. QED
    BY <1>1, <2>2, <2>3 DEF Sole, Keeps, Told
<1>8. CASE SavePart(p)
  BY <1>8 DEF SavePart, Sole
<1>9. CASE SaveData(p)
  <2>1. /\ files' = Put(files, version[p], Whole(mem[p])) /\ at[p] = "data" /\ at'[p] = "tmp"
        /\ UNCHANGED <<cmd, version, mem, first>>
    BY <1>9 DEF SaveData, Sole
  <2>2. version[p] \in DOMAIN files' /\ files'[version[p]] = Whole(mem[p])
    BY <2>1 DEF Put
  <2>. QED
    BY <1>1, <2>1, <2>2 DEF Sole, Keeps, Told
<1>10. CASE TmpCreate(p)
  BY <1>1, <1>10 DEF TmpCreate, Sole, Keeps, Told
<1>11. CASE TmpData(p)
  <2>1. Filled(EmptyManifest, version[p]) = {WholeManifest(version[p])}
    BY DEF Filled, EmptyManifest
  <2>2. /\ tmp' = WholeManifest(version[p]) /\ at[p] = "fill" /\ at'[p] = "rename"
        /\ UNCHANGED <<files, cmd, version, mem, first>>
    BY <1>11, <2>1 DEF TmpData, Sole
  <2>. QED
    BY <1>1, <2>2 DEF Sole, Keeps, Told
<1>. QED
  BY <1>3, <1>4, <1>5, <1>6, <1>7, <1>8, <1>9, <1>10, <1>11 DEF Step

LEMMA SoleStep ==
  ASSUME TypeInv, FitInv, SoleInv, [Next]_vars PROVE SoleInv'
<1>1. CASE UNCHANGED vars
  BY <1>1 DEF vars, disk, memory, history, crossing, SoleInv, Sole, Writers, Keeps, Told
<1>2. ASSUME NEW p \in Procs, Step(p) \/ Die(p) \/ (\E c \in Commands : Start(p, c)) PROVE SoleInv'
  <2>1. TypeInv'
    BY <1>2, TypeStep DEF Next
  <2>2. \A q \in Procs \ {p} : q \in Writers' <=> q \in Writers
    BY <1>2, Joining
  <2> SUFFICES ASSUME NEW q \in Writers', q \notin crossed' PROVE Sole(q)'
    BY DEF SoleInv
  <2>3. q \in Procs
    BY DEF Writers
  <2>4. CASE /\ p \notin Writers /\ p \in Writers' /\ Joins(p)
             /\ \/ cmd'[p].name = "create" /\ at'[p] = "save"
                \/ at'[p] = "load" /\ handle'[p] = "own"
    <3>1. Writers = {} /\ crossed' = crossed \ {p}
      BY <2>2, <2>3, <2>4 DEF Joins, Writers
    <3>2. q = p /\ Writers' = {p}
      BY <2>2, <2>3, <2>4, <3>1 DEF Writers
    <3>. QED
      BY <2>4, <3>2 DEF Sole, Saving
  <2>5. CASE (p \in Writers' => p \in Writers) /\ crossed' = crossed
    <3>1. q \in Writers /\ Sole(q)
      BY <2>2, <2>3, <2>5 DEF SoleInv
    <3>2. CASE q = p
      <4>1. ~Die(p) /\ ~\E c \in Commands : Start(p, c)
        <5>1. at[p] \in Critical /\ at'[p] \in Critical
          BY <3>1, <3>2 DEF Writers
        <5>. QED
          BY <5>1 DEF Die, Start, Goto, Running, Ended, Critical, TypeInv
      <4>. QED
        BY <1>2, <2>1, <2>2, <3>1, <3>2, <4>1, SoleSelf
    <3>3. CASE q # p
      <4>1. p \notin Writers
        BY <3>1, <3>3 DEF Sole
      <4>2. UNCHANGED <<files, tmp>> /\ handle'[q] = handle[q]
        BY <1>2, <2>3, <3>3, <4>1, Bystander DEF disk
      <4>3. /\ at'[q] = at[q] /\ cmd'[q] = cmd[q] /\ version'[q] = version[q]
            /\ mem'[q] = mem[q] /\ first'[q] = first[q]
        BY <1>2, <2>3, <3>3, Frame
      <4>4. Writers' = {q}
        BY <2>2, <2>5, <3>1, <3>3, <4>1 DEF Sole, Writers
      <4>. QED
        BY <3>1, <4>2, <4>3, <4>4 DEF Sole, Keeps, Told
    <3>. QED
      BY <3>2, <3>3
  <2>. QED
    BY <1>2, <2>4, <2>5, Joining
<1>. QED
  BY <1>1, <1>2 DEF Next

-----------------------------------------------------------------------------
(* Promises. *)

(* Nobody forgets that he was surprised, or overlapped, but by a new start; *)
(* and what was answered is dropped only with a surprise to all.           *)
LEMMA Histories ==
  ASSUME TypeInv, NEW p \in Procs, Step(p) \/ Die(p) \/ (\E c \in Commands : Start(p, c))
  PROVE  /\ \A q \in Procs \ {p} : q \notin crossed' \cup upset' => q \notin crossed \cup upset
         /\ \A q \in Procs \ {p} : q \notin upset' => q \notin upset
         /\ acked \subseteq acked' \/ (acked' = {} /\ upset' = Procs)
         /\ \/ acked' \subseteq acked
            \/ /\ at[p] = "print" /\ cmd[p].name # "create" /\ p \notin crossed \cup upset
               /\ acked' = acked \cup {Told(p)}
         /\ p \notin upset' => \/ p \notin upset
                               \/ \E c \in Commands : Start(p, c)
                               \/ at[p] = "open" /\ cmd[p].name # "search" /\ cmd' = cmd
<1> USE DEF TypeInv, Goto, disk, memory, history, promise, crossing
<1>1. CASE \E c \in Commands : Start(p, c)
  <2>1. PICK c \in Commands : Start(p, c)
    BY <1>1
  <2>2. acked' = acked /\ upset' = upset \ {p} /\ crossed \ {p} \subseteq crossed'
    BY <2>1 DEF Start, Joins
  <2>. QED
    BY <1>1, <2>2
<1>2. CASE ReadManifest(p)
  BY <1>2 DEF ReadManifest, Reads, Joins
<1>3. CASE Load(p) \/ Search(p) \/ Die(p) \/ CompactList(p) \/ CompactRemove(p)
  BY <1>3 DEF Load, Search, Die, CompactList, CompactRemove
<1>4. CASE CompactFails(p) \/ CompactDone(p) \/ Add(p) \/ AddPanics(p) \/ RenameFails(p)
  BY <1>4 DEF CompactFails, CompactDone, Add, AddPanics, RenameFails
<1>5. CASE SaveCreate(p)
  BY <1>5 DEF SaveCreate
<1>6. CASE SavePart(p) \/ SaveData(p) \/ TmpCreate(p)
  BY <1>6 DEF SavePart, SaveData, TmpCreate, Surprise
<1>7. CASE TmpData(p) \/ Rename(p)
  <2>1. \/ UNCHANGED history
        \/ crossed' = crossed /\ UNCHANGED <<acked, upset>>
        \/ crossed' = crossed /\ acked' = {} /\ upset' = Procs
    BY <1>7 DEF TmpData, Rename, Commits
  <2>. QED
    BY <2>1
<1>8. CASE Acknowledge(p)
  BY <1>8 DEF Acknowledge, Told
<1>. QED
  BY <1>1, <1>2, <1>3, <1>4, <1>5, <1>6, <1>7, <1>8 DEF Step

(* Only the commit of a writer that was not overlapped makes a promise.    *)
LEMMA PromisesShrink ==
  ASSUME TypeInv, NEW p \in Procs, Step(p) \/ Die(p) \/ (\E c \in Commands : Start(p, c)),
         Rename(p) => p \in crossed
  PROVE  Promised' \subseteq Promised
<1>1. acked' \subseteq Promised
  BY Histories DEF Promised, Pending
<1>2. ASSUME NEW q \in Pending' PROVE Told(q)' \in Promised
  <2>1. q \in Procs /\ at'[q] = "print" /\ cmd'[q].name # "create" /\ q \notin crossed' \cup upset'
    BY DEF Pending
  <2>2. CASE q # p
    <3>1. q \in Pending
      BY <2>1, <2>2, Frame, Histories DEF Pending
    <3>2. Told(q)' = Told(q)
      BY <2>1, <2>2, Frame DEF Told
    <3>. QED
      BY <3>1, <3>2 DEF Promised
  <2>3. CASE q = p
    <3> USE DEF TypeInv, Goto, disk, memory, history, promise, crossing
    <3>1. at'[p] = "print" /\ p \notin crossed'
      BY <2>1, <2>3
    <3>2. ~\E c \in Commands : Start(p, c)
      BY <3>1 DEF Start
    <3>3. ~(ReadManifest(p) \/ Load(p) \/ Search(p) \/ Die(p) \/ CompactList(p) \/ CompactRemove(p))
      BY <3>1 DEF ReadManifest, Reads, Load, Search, Die, CompactList, CompactRemove
    <3>4. ~(CompactFails(p) \/ CompactDone(p) \/ Add(p) \/ AddPanics(p) \/ RenameFails(p))
      BY <3>1 DEF CompactFails, CompactDone, Add, AddPanics, RenameFails
    <3>5. ~(SaveCreate(p) \/ SavePart(p) \/ SaveData(p) \/ TmpCreate(p) \/ TmpData(p) \/ Acknowledge(p))
      BY <3>1 DEF SaveCreate, SavePart, SaveData, TmpCreate, TmpData, Acknowledge
    <3>6. Rename(p) /\ crossed' = crossed
      BY <3>2, <3>3, <3>4, <3>5 DEF Step, Rename
    <3>. QED
      BY <3>1, <3>6
  <2>. QED
    BY <2>2, <2>3
<1>. QED
  BY <1>1, <1>2 DEF Promised

(* A version but 0 is whole only as it was, or keeps all promises. *)
LEMMA FilesKept ==
  ASSUME TypeInv, FitInv, PromiseInv, NEW p \in Procs,
         Step(p) \/ Die(p) \/ (\E c \in Commands : Start(p, c)),
         NEW v \in Nat \ {0}, v \in DOMAIN files', files'[v].whole
  PROVE  \/ v \in DOMAIN files /\ files'[v] = files[v]
         \/ KeepsAll(files'[v].vs, Promised)
<1>1. CASE files' = files
  BY <1>1
<1>2. CASE CompactRemove(p)
  BY <1>2 DEF CompactRemove
<1>3. CASE SaveCreate(p) \/ SavePart(p)
  <2>1. files' = Put(files, version[p], Torn)
    BY <1>3 DEF SaveCreate, SavePart
  <2>. QED
    BY <2>1 DEF Put, Torn
<1>4. CASE SaveData(p)
  <2>1. at[p] = "data" /\ p \in Writers
    BY <1>4 DEF SaveData, FitInv, Fits, Saving, Writers, Critical
  <2>2. Holds(p)
    BY <2>1 DEF PromiseInv
  <2>3. CASE handle[p] = "own" /\ files' = Put(files, version[p], Whole(mem[p]))
    <3>1. CASE v = version[p]
      <4>1. cmd[p].name # "create"
        BY <2>1, <3>1 DEF FitInv, Fits, Saving
      <4>2. files'[v].vs = mem[p]
        BY <2>3, <3>1 DEF Put, Whole
      <4>. QED
        BY <2>1, <2>2, <4>1, <4>2 DEF Holds
    <3>2. CASE v # version[p]
      BY <2>3, <3>2 DEF Put
    <3>. QED
      BY <3>1, <3>2
  <2>4. CASE handle[p] = "shared"
    BY <2>1, <2>2, <2>4 DEF Holds, KeepsAll
  <2>5. CASE files' = files
    BY <2>5
  <2>. QED
    BY <1>4, <2>3, <2>4, <2>5 DEF SaveData
<1>5. ASSUME ~CompactRemove(p), ~SaveCreate(p), ~SavePart(p), ~SaveData(p) PROVE files' = files
  <2> USE DEF disk
  <2>1. CASE (\E c \in Commands : Start(p, c)) \/ ReadManifest(p) \/ Load(p) \/ Search(p) \/ Die(p)
    BY <2>1 DEF Start, ReadManifest, Load, Search, Die
  <2>2. CASE CompactList(p) \/ CompactFails(p) \/ CompactDone(p) \/ Add(p) \/ AddPanics(p)
    BY <2>2 DEF CompactList, CompactFails, CompactDone, Add, AddPanics
  <2>3. CASE TmpCreate(p) \/ TmpData(p) \/ Rename(p) \/ RenameFails(p) \/ Acknowledge(p)
    BY <2>3 DEF TmpCreate, TmpData, Rename, RenameFails, Acknowledge
  <2>. QED
    BY <1>5, <2>1, <2>2, <2>3 DEF Step
<1>. QED
  BY <1>1, <1>2, <1>3, <1>4, <1>5

LEMMA KeepsOnFile ==
  ASSUME TypeInv, FitInv, PromiseInv, NEW p \in Procs,
         Step(p) \/ Die(p) \/ (\E c \in Commands : Start(p, c)),
         NEW v \in Nat \ {0}, NEW S, NEW T, T \subseteq S, T \subseteq Promised, FileKeeps(v, S)
  PROVE  v \in DOMAIN files' /\ files'[v].whole => KeepsAll(files'[v].vs, T)
<1> SUFFICES ASSUME v \in DOMAIN files', files'[v].whole PROVE KeepsAll(files'[v].vs, T)
  OBVIOUS
<1>1. \/ v \in DOMAIN files /\ files'[v] = files[v]
      \/ KeepsAll(files'[v].vs, Promised)
  BY FilesKept
<1>. QED
  BY <1>1 DEF KeepsAll, FileKeeps

(* The file of any version but 0 goes on to keep what is promised. *)
LEMMA StaysKept ==
  ASSUME TypeInv, FitInv, PromiseInv, NEW p \in Procs,
         Step(p) \/ Die(p) \/ (\E c \in Commands : Start(p, c)),
         Promised' \subseteq Promised
  PROVE  \A v \in Nat \ {0} :
           FileKeeps(v, Promised) /\ v \in DOMAIN files' /\ files'[v].whole =>
             KeepsAll(files'[v].vs, Promised')
  BY KeepsOnFile

LEMMA NoPromise ==
  ASSUME Promised' = {} PROVE PromiseInv'
  BY DEF PromiseInv, Names, Holds, FileKeeps, KeepsAll

(* A step that makes no promise leaves what the other writers hold. *)
LEMMA PromiseFrame ==
  ASSUME TypeInv, FitInv, PromiseInv, NEW p \in Procs,
         Step(p) \/ Die(p) \/ (\E c \in Commands : Start(p, c)),
         Promised' \subseteq Promised, Names(manifest)',
         manifest' \in {Absent, WholeManifest(0)} => Promised' = {},
         (\E q \in Writers' : at'[q] \in {"fill", "rename"}) => Names(tmp)',
         \A q \in Writers \ {p} : handle'[q] = "shared" => handle[q] = "shared",
         p \in Writers' => Holds(p)'
  PROVE  PromiseInv'
<1>1. ASSUME NEW q \in Writers', q # p PROVE Holds(q)'
  <2>1. q \in Procs /\ q \in Writers
    BY <1>1, Joining DEF Writers
  <2>2. /\ at'[q] = at[q] /\ cmd'[q] = cmd[q] /\ version'[q] = version[q] /\ mem'[q] = mem[q]
        /\ handle'[q] = "shared" => handle[q] = "shared"
    BY <1>1, <2>1, Frame
  <2>3. Holds(q) /\ version[q] \in Nat
    BY <2>1 DEF PromiseInv, TypeInv
  <2>4. version[q] # 0 /\ FileKeeps(version[q], Promised) => FileKeeps(version[q], Promised)'
    BY <2>2, <2>3, StaysKept DEF FileKeeps
  <2>. QED
    BY <2>2, <2>3, <2>4 DEF Holds, KeepsAll, Keeps
<1>. QED
  BY <1>1 DEF PromiseInv

(* A manifest file that names a kept version goes on to do so. *)
LEMMA StaysNamed ==
  ASSUME TypeInv, FitInv, PromiseInv, NEW p \in Procs,
         Step(p) \/ Die(p) \/ (\E c \in Commands : Start(p, c)),
         Promised' \subseteq Promised, NEW m \in Manifests, Names(m)
  PROVE  m.state = "whole" /\ m.version # 0 /\ m.version \in DOMAIN files' /\ files'[m.version].whole =>
           KeepsAll(files'[m.version].vs, Promised')
  BY StaysKept DEF Names, Manifests

(* A step that leaves both manifest files as they are. *)
LEMMA PromiseSame ==
  ASSUME TypeInv, FitInv, PromiseInv, NEW p \in Procs,
         Step(p) \/ Die(p) \/ (\E c \in Commands : Start(p, c)),
         ~Rename(p), UNCHANGED <<manifest, tmp>>,
         p \in Writers' /\ at'[p] \in {"fill", "rename"} => p \in Writers /\ at[p] \in {"fill", "rename"},
         \A q \in Writers \ {p} : handle'[q] = "shared" => handle[q] = "shared",
         p \in Writers' => Holds(p)'
  PROVE  PromiseInv'
<1>1. Promised' \subseteq Promised
  BY PromisesShrink
<1>2. Names(manifest)'
  <2>1. Names(manifest) /\ manifest \in Manifests
    BY DEF PromiseInv, TypeInv
  <2>. QED
    BY <1>1, <2>1, StaysNamed DEF Names, FileKeeps, KeepsAll, Keeps
<1>3. manifest' \in {Absent, WholeManifest(0)} => Promised' = {}
  BY <1>1 DEF PromiseInv
<1>4. ASSUME NEW q \in Writers', at'[q] \in {"fill", "rename"} PROVE Names(tmp)'
  <2>1. q \in Writers /\ at[q] \in {"fill", "rename"}
    BY <1>4, Joining, Frame DEF Writers
  <2>2. Names(tmp)
    BY <2>1 DEF PromiseInv
  <2>. QED
    BY <1>1, <2>2, StaysNamed DEF Names, FileKeeps, TypeInv, KeepsAll, Keeps
<1>. QED
  BY <1>1, <1>2, <1>3, <1>4, PromiseFrame

LEMMA PromiseBystander ==
  ASSUME TypeInv, FitInv, PromiseInv, NEW p \in Procs, p \notin Writers,
         Step(p) \/ Die(p) \/ (\E c \in Commands : Start(p, c))
  PROVE  PromiseInv'
<1>1. UNCHANGED <<manifest, tmp>> /\ \A q \in Procs \ {p} : handle'[q] = handle[q]
  BY Bystander DEF disk
<1>2. ~Rename(p)
  BY DEF Rename, FitInv, Fits, Saving, Writers, Critical
<1>3. ASSUME p \in Writers' PROVE Holds(p)' /\ at'[p] \notin {"fill", "rename"}
  <2>1. \/ cmd'[p].name = "create" /\ at'[p] = "save"
        \/ /\ at'[p] = "load" /\ handle'[p] = "own" /\ version'[p] = manifest.version
           /\ manifest.state = "whole"
    BY <1>3, Joining
  <2>2. CASE cmd'[p].name = "create" /\ at'[p] = "save"
    BY <2>2 DEF Holds
  <2>3. CASE /\ at'[p] = "load" /\ handle'[p] = "own" /\ version'[p] = manifest.version
             /\ manifest.state = "whole"
    <3>1. Promised' \subseteq Promised
      BY <1>2, PromisesShrink
    <3>2. version'[p] # 0 => FileKeeps(version[p], Promised)'
      <4>1. Names(manifest) /\ manifest \in Manifests
        BY DEF PromiseInv, TypeInv
      <4>. QED
        BY <2>3, <3>1, <4>1, StaysNamed DEF FileKeeps, KeepsAll, Keeps
    <3>3. version'[p] = 0 => manifest = WholeManifest(0)
      BY <2>3 DEF TypeInv, Manifests, WholeManifest
    <3>4. version'[p] = 0 => Promised' = {}
      BY <3>1, <3>3 DEF PromiseInv
    <3>. QED
      BY <2>3, <3>2, <3>4 DEF Holds
  <2>. QED
    BY <2>1, <2>2, <2>3
<1>4. \A q \in Writers \ {p} : q \in Procs
  BY DEF Writers
<1>. QED
  BY <1>1, <1>2, <1>3, <1>4, PromiseSame

(* A writer's steps before it saves, and those that end it. *)
LEMMA PromiseRun ==
  ASSUME TypeInv, FitInv, PromiseInv, NEW p \in Writers,
         \/ Load(p) \/ Search(p) \/ Die(p) \/ CompactList(p) \/ CompactRemove(p) \/ CompactFails(p)
         \/ CompactDone(p) \/ Add(p) \/ AddPanics(p) \/ RenameFails(p)
  PROVE  PromiseInv'
<1> USE DEF TypeInv, Goto, disk, memory, history, promise, crossing
<1>1. p \in Procs /\ Holds(p) /\ (Step(p) \/ Die(p))
  BY DEF Writers, PromiseInv, Step
<1>2. UNCHANGED <<manifest, tmp, cmd>> /\ at'[p] \notin {"fill", "rename"} /\ ~Rename(p)
  BY <1>1 DEF Load, Search, Die, CompactList, CompactRemove, CompactFails, CompactDone, Add, AddPanics,
              RenameFails, Rename, Absent
<1>3. \A q \in Procs : handle'[q] = "shared" => handle[q] = "shared"
  BY DEF Load, Search, Die, CompactList, CompactRemove, CompactFails, CompactDone, Add, AddPanics,
         RenameFails
<1>4. Promised' \subseteq Promised
  BY <1>1, <1>2, PromisesShrink
<1>5. ASSUME p \in Writers' PROVE Holds(p)'
  <2>1. \/ at'[p] = "run" /\ Load(p)
        \/ at'[p] = "remove" /\ mem' = mem
        \/ at'[p] = "save" /\ Add(p)
    BY <1>5 DEF Load, Search, Die, CompactList, CompactRemove, CompactFails, CompactDone, Add, AddPanics,
                RenameFails, Writers, Critical
  <2>2. CASE at'[p] = "run" /\ Load(p)
    <3>1. at[p] = "load" /\ mem'[p] \in {files[version[p]].vs, Mixed.vs}
          /\ \/ handle[p] = "shared"
             \/ version[p] \in DOMAIN files /\ files[version[p]].whole /\ mem'[p] = files[version[p]].vs
      BY <1>1, <2>2 DEF Load
    <3>2. Promised = {} \/ KeepsAll(mem'[p], Promised)
      BY <1>1, <3>1 DEF Holds, FileKeeps
    <3>. QED
      BY <1>4, <2>2, <3>2 DEF Holds, KeepsAll, Keeps
  <2>3. CASE at'[p] = "remove" /\ mem' = mem
    <3>1. at[p] \in {"run", "remove"}
      BY <1>1, <2>3 DEF Load, Search, Die, CompactList, CompactRemove, CompactFails, CompactDone, Add,
                        AddPanics, RenameFails, Runs
    <3>. QED
      BY <1>1, <1>2, <1>4, <2>3, <3>1 DEF Holds, KeepsAll, Keeps
  <2>4. CASE at'[p] = "save" /\ Add(p)
    <3>1. at[p] = "run" /\ mem'[p] = mem[p] \o cmd[p].vs
      BY <1>1, <2>4 DEF Add, Runs
    <3>2. cmd[p].vs \in Seq(Vectors) /\ mem[p] \in Seq(Vectors) /\ cmd[p].name # "create"
      BY <1>1, <3>1 DEF FitInv, Fits, Ended, Saving
    <3>3. KeepsAll(mem[p], Promised)
      BY <1>1, <3>1, <3>2 DEF Holds
    <3>4. \A a \in Promised : a \in Answers
      <4>1. \A q \in Pending : Told(q) \in Answers
        BY DEF Pending, Told, Answers, FitInv, Fits, Ended
      <4>. QED
        BY <4>1 DEF Promised
    <3>5. \A a \in Promised' : Keeps(mem[p] \o cmd[p].vs, a)
      <4> SUFFICES ASSUME NEW a \in Promised' PROVE Keeps(mem[p] \o cmd[p].vs, a)
        OBVIOUS
      <4>1. a \in Answers /\ Keeps(mem[p], a)
        BY <1>4, <3>3, <3>4 DEF KeepsAll
      <4>. QED
        BY <3>2, <4>1, KeepsOn
    <3>6. KeepsAll(mem'[p], Promised')
      BY <3>1, <3>5 DEF KeepsAll
    <3>. QED
      BY <2>4, <3>6 DEF Holds, KeepsAll, Keeps
  <2>. QED
    BY <2>1, <2>2, <2>3, <2>4
<1>6. \A q \in Writers : q \in Procs
  BY DEF Writers
<1>. QED
  BY <1>1, <1>2, <1>3, <1>5, <1>6, PromiseSame

(* The index file. *)
LEMMA PromiseSave ==
  ASSUME TypeInv, FitInv, PromiseInv, NEW p \in Writers, SaveCreate(p) \/ SavePart(p) \/ SaveData(p)
  PROVE  PromiseInv'
<1> USE DEF TypeInv, Goto, disk, memory, history, promise, crossing
<1>1. p \in Procs /\ Holds(p) /\ Step(p)
  BY DEF Writers, PromiseInv, Step
<1>2. UNCHANGED <<manifest, tmp, cmd, version, mem>> /\ at'[p] \in {"data", "tmp"} /\ ~Rename(p)
  BY <1>1 DEF SaveCreate, SavePart, SaveData, Rename
<1>3. Promised' \subseteq Promised
  BY <1>1, <1>2, PromisesShrink
<1>4. CASE SaveCreate(p) /\ Sharers(p) \cap Writers # {}
  <2>1. acked' = {} /\ upset' = Procs
    BY <1>4 DEF SaveCreate
  <2>2. Promised' = {}
    BY <2>1 DEF Promised, Pending
  <2>. QED
    BY <2>2, NoPromise
<1>5. CASE ~(SaveCreate(p) /\ Sharers(p) \cap Writers # {})
  <2>1. \A q \in Sharers(p) : at[q] = "data" => q \in Writers
    BY DEF Sharers, Writers, FitInv, Fits, Saving, Critical
  <2>2. SaveCreate(p) => handle'[p] = "own"
    BY <1>1, <1>5, <2>1 DEF SaveCreate, Sharers
  <2>3. \A q \in Writers \ {p} : handle'[q] = "shared" => handle[q] = "shared"
    BY <1>5 DEF SaveCreate, SavePart, SaveData, Sharers, Writers
  <2>4. version[p] # 0 => FileKeeps(version[p], Promised)'
    <3>1. CASE SaveCreate(p)
      <4>1. files' = Put(files, version[p], Torn)
        BY <3>1 DEF SaveCreate
      <4>2. ~files'[version[p]].whole /\ version' = version
        BY <1>2, <4>1 DEF Put, Torn
      <4>. QED
        BY <4>2 DEF FileKeeps
    <3>2. CASE SavePart(p) \/ SaveData(p)
      <4>1. at[p] = "data" /\ version[p] \in Nat
        BY <1>1, <3>2 DEF SavePart, SaveData
      <4>2. version[p] # 0 => FileKeeps(version[p], Promised)
        BY <1>1, <4>1 DEF Holds
      <4>3. ASSUME NEW v \in Nat \ {0}, FileKeeps(v, Promised), v \in DOMAIN files', files'[v].whole
            PROVE  KeepsAll(files'[v].vs, Promised')
        BY <1>1, <1>3, <4>3, StaysKept
      <4>4. version[p] # 0 /\ version[p] \in DOMAIN files' /\ files'[version[p]].whole =>
              KeepsAll(files'[version[p]].vs, Promised')
        BY <4>1, <4>2, <4>3
      <4>. QED
        BY <1>2, <4>4 DEF FileKeeps, KeepsAll, Keeps
    <3>. QED
      BY <3>1, <3>2
  <2>5. at'[p] = "data" /\ handle'[p] = "shared" => Promised' = {}
    <3>1. at'[p] = "data" /\ handle'[p] = "shared" => at[p] = "data" /\ handle[p] = "shared"
      BY <1>1, <2>2 DEF SavePart, SaveData
    <3>. QED
      BY <1>1, <1>3, <3>1 DEF Holds
  <2>6. cmd[p].name # "create" => KeepsAll(mem[p], Promised)
    BY <1>1 DEF Holds, SaveCreate, SavePart, SaveData
  <2>7. cmd'[p].name # "create" => KeepsAll(mem[p], Promised)'
    BY <1>2, <1>3, <2>6 DEF KeepsAll, Keeps
  <2>8. Holds(p)'
    BY <1>2, <2>4, <2>5, <2>7 DEF Holds, FileKeeps, KeepsAll, Keeps
  <2>. QED
    BY <1>1, <1>2, <2>3, <2>8, PromiseSame
<1>. QED
  BY <1>4, <1>5

(* The manifest files. *)
LEMMA PromiseTmp ==
  ASSUME TypeInv, FitInv, PromiseInv, NEW p \in Writers, TmpCreate(p) \/ TmpData(p)
  PROVE  PromiseInv'
<1>1. p \in Procs /\ Holds(p) /\ Step(p) /\ version[p] \in Nat
  BY DEF Writers, PromiseInv, Step, TypeInv
<1>2. /\ UNCHANGED <<files, cmd, version, mem>> /\ at[p] \in {"tmp", "fill"} /\ at'[p] \in {"fill", "rename"}
      /\ at[p] = "fill" => TmpData(p)
  BY <1>1 DEF TmpCreate, TmpData, memory, Goto, TypeInv
<1>3. ~Rename(p)
  BY <1>2 DEF Rename
<1>4. Promised' \subseteq Promised
  BY <1>1, <1>3, PromisesShrink
<1>5. \A q \in Writers \ {p} : handle'[q] = "shared" => handle[q] = "shared"
  BY DEF TmpCreate, TmpData, TypeInv, Writers
<1>6. version[p] # 0 => FileKeeps(version[p], Promised)
  BY <1>1, <1>2 DEF Holds
<1>7. version[p] # 0 => FileKeeps(version[p], Promised')
  BY <1>4, <1>6 DEF FileKeeps, KeepsAll
<1>8. Holds(p)'
  <2>1. cmd[p].name # "create" => KeepsAll(mem[p], Promised')
    BY <1>1, <1>2, <1>4 DEF Holds, KeepsAll
  <2>. QED
    BY <1>2, <1>7, <2>1 DEF Holds, FileKeeps, KeepsAll, Keeps
<1>9. ASSUME NEW m \in Manifests, NEW n \in Filled(m, version[p])
      PROVE  n.state = "whole" /\ n.version # 0 => FileKeeps(n.version, Promised')
  BY <1>1, <1>7, <1>9, FilledTypes DEF WholeManifest, TornManifest
<1>10. ASSUME NEW m \in Manifests, Names(m)
       PROVE  m.state = "whole" /\ m.version # 0 => FileKeeps(m.version, Promised')
  BY <1>4, <1>10 DEF Names, FileKeeps, KeepsAll
<1>11. Names(manifest) /\ manifest \in Manifests /\ tmp \in Manifests
  BY DEF PromiseInv, TypeInv
<1>12. at[p] = "fill" => Names(tmp)
  BY DEF PromiseInv
<1>13. CASE UNCHANGED manifest /\ (tmp' = EmptyManifest \/ (at[p] = "fill" /\ tmp' = tmp)
                                    \/ tmp' \in Filled(tmp, version[p]))
  <2>1. Names(manifest)'
    BY <1>2, <1>10, <1>11, <1>13 DEF Names, FileKeeps, KeepsAll, Keeps
  <2>2. manifest' \in {Absent, WholeManifest(0)} => Promised' = {}
    BY <1>4, <1>13 DEF PromiseInv
  <2>3. tmp'.state = "whole" /\ tmp'.version # 0 => FileKeeps(tmp'.version, Promised')
    <3>1. CASE tmp' = EmptyManifest
      BY <3>1 DEF EmptyManifest
    <3>2. CASE at[p] = "fill" /\ tmp' = tmp
      BY <1>10, <1>11, <1>12, <3>2
    <3>3. CASE tmp' \in Filled(tmp, version[p])
      BY <1>9, <1>11, <3>3
    <3>. QED
      BY <1>13, <3>1, <3>2, <3>3
  <2>4. Names(tmp)'
    BY <1>2, <2>3 DEF Names, FileKeeps, KeepsAll, Keeps
  <2>. QED
    BY <1>1, <1>4, <1>5, <1>8, <2>1, <2>2, <2>4, PromiseFrame
<1>14. CASE /\ at[p] = "fill" /\ tmp' = tmp
            /\ manifest' \in Filled(manifest, version[p]) /\ Commits(p, manifest')
  <2>1. CASE manifest' = WholeManifest(0)
    <3>1. Promised' = {}
      BY <1>14, <2>1 DEF Commits, Promised, Pending
    <3>. QED
      BY <3>1, NoPromise
  <2>2. CASE manifest' # WholeManifest(0)
    <3>1. Names(manifest)'
      BY <1>2, <1>9, <1>11, <1>14 DEF Names, FileKeeps, KeepsAll, Keeps
    <3>2. manifest' \notin {Absent, WholeManifest(0)}
      BY <1>1, <1>14, <2>2, FilledTypes DEF Absent, WholeManifest, TornManifest
    <3>3. Names(tmp)'
      BY <1>2, <1>10, <1>11, <1>12, <1>14 DEF Names, FileKeeps, KeepsAll, Keeps
    <3>. QED
      BY <1>1, <1>4, <1>5, <1>8, <3>1, <3>2, <3>3, PromiseFrame
  <2>. QED
    BY <2>1, <2>2
<1>15. \/ UNCHANGED manifest /\ (tmp' = EmptyManifest \/ (at[p] = "fill" /\ tmp' = tmp)
                                    \/ tmp' \in Filled(tmp, version[p]))
       \/ /\ at[p] = "fill" /\ tmp' = tmp
          /\ manifest' \in Filled(manifest, version[p]) /\ Commits(p, manifest')
  BY DEF TmpCreate, TmpData
<1>. QED
  BY <1>13, <1>14, <1>15

(* The commit, of a writer that was overlapped and of one that was not.    *)
LEMMA PromiseRename ==
  ASSUME TypeInv, FitInv, SoleInv, PromiseInv, NEW p \in Writers, Rename(p)
  PROVE  PromiseInv'
<1>1. p \in Procs /\ Holds(p) /\ Step(p) /\ version[p] \in Nat
  BY DEF Writers, PromiseInv, Step, TypeInv
<1>2. /\ UNCHANGED <<files, cmd, version, mem, first, crossed>> /\ at[p] = "rename" /\ at'[p] = "print"
      /\ manifest' = tmp /\ tmp # Absent /\ tmp' = Absent /\ Commits(p, tmp)
      /\ \A q \in Procs : handle'[q] = "shared" => handle[q] = "shared"
  BY <1>1 DEF Rename, memory, Goto, TypeInv
<1>3. p \notin Writers'
  BY <1>2 DEF Writers, Critical
<1>4. Names(tmp)'
  BY <1>2 DEF Names, Absent
<1>5. CASE tmp = WholeManifest(0)
  <2>1. Promised' = {}
    BY <1>2, <1>5 DEF Commits, Promised, Pending
  <2>. QED
    BY <2>1, NoPromise
<1>6. CASE tmp # WholeManifest(0) /\ p \in crossed
  <2>1. Promised' \subseteq Promised
    BY <1>1, <1>6, PromisesShrink
  <2>2. Names(tmp)
    BY <1>2 DEF PromiseInv
  <2>3. Names(manifest)'
    BY <1>2, <2>1, <2>2 DEF Names, FileKeeps, KeepsAll, Keeps
  <2>4. \A q \in Writers : q \in Procs
    BY DEF Writers
  <2>. QED
    BY <1>1, <1>2, <1>3, <1>4, <1>6, <2>1, <2>3, <2>4, PromiseFrame
<1>7. CASE tmp # WholeManifest(0) /\ p \notin crossed
  <2>1. Sole(p)
    BY <1>7 DEF SoleInv
  <2>2. /\ tmp = WholeManifest(version[p]) /\ version[p] \in DOMAIN files
        /\ files[version[p]] = Whole(mem[p])
    BY <1>2, <2>1 DEF Sole
  <2>3. cmd[p].name # "create"
    BY <1>1, <1>2, <1>7, <2>2 DEF FitInv, Fits, Saving
  <2>4. KeepsAll(mem[p], Promised) /\ Keeps(mem[p], Told(p))
    BY <1>1, <1>2, <2>1, <2>3 DEF Holds, Sole, Saving
  <2>5. Promised' \subseteq Promised \cup {Told(p)}
    <3>1. acked' = acked /\ upset' = upset
      BY <1>2, <1>7 DEF Commits
    <3>2. \A q \in Procs : Told(q)' = Told(q)
      BY <1>2 DEF Told
    <3>3. Pending' \subseteq Pending \cup {p}
      BY <1>1, <1>2, <3>1, Frame DEF Pending
    <3>4. \A q \in Pending' : q \in Procs
      BY DEF Pending
    <3>. QED
      BY <3>1, <3>2, <3>3, <3>4 DEF Promised
  <2>6. KeepsAll(mem[p], Promised')
    BY <2>4, <2>5 DEF KeepsAll
  <2>7. Names(manifest)'
    BY <1>2, <2>2, <2>6 DEF Names, FileKeeps, WholeManifest, Whole, KeepsAll, Keeps
  <2>8. Writers' = {}
    BY <1>1, <1>3, <2>1, Joining DEF Sole, Writers
  <2>. QED
    BY <1>2, <1>7, <2>7, <2>8 DEF PromiseInv
<1>. QED
  BY <1>5, <1>6, <1>7

LEMMA PromiseStep ==
  ASSUME TypeInv, FitInv, SoleInv, PromiseInv, [Next]_vars
  PROVE  PromiseInv'
<1>1. CASE UNCHANGED vars
  BY <1>1 DEF vars, disk, memory, history, promise, crossing, PromiseInv, Names, Holds, Writers,
              FileKeeps, KeepsAll, Keeps, Promised, Pending, Told
<1>2. ASSUME NEW p \in Procs, Step(p) \/ Die(p) \/ (\E c \in Commands : Start(p, c)) PROVE PromiseInv'
  <2>1. CASE p \notin Writers
    BY <1>2, <2>1, PromiseBystander
  <2>2. CASE p \in Writers
    <3>1. ~ReadManifest(p) /\ ~Acknowledge(p) /\ ~\E c \in Commands : Start(p, c)
      BY <2>2 DEF ReadManifest, Acknowledge, Start, Writers, Running, Ended, Critical
    <3>. QED
      BY <1>2, <2>2, <3>1, PromiseRun, PromiseSave, PromiseTmp, PromiseRename DEF Step
  <2>. QED
    BY <2>1, <2>2
<1>. QED
  BY <1>1, <1>2 DEF Next

-----------------------------------------------------------------------------
(* Searches. *)

(* Only a save that surprises it makes the file of a search a shared one.  *)
LEMMA NotShared ==
  ASSUME TypeInv, NEW p \in Procs, Step(p) \/ Die(p) \/ (\E c \in Commands : Start(p, c)),
         NEW q \in Procs \ {p}, handle[q] # "shared", q \notin upset'
  PROVE  handle'[q] # "shared"
<1> USE DEF TypeInv
<1>1. CASE SaveCreate(p)
  BY <1>1 DEF SaveCreate
<1>2. CASE CompactRemove(p) \/ Rename(p)
  BY <1>2 DEF CompactRemove, Rename
<1>3. CASE (\E c \in Commands : Start(p, c)) \/ ReadManifest(p) \/ Load(p) \/ Search(p) \/ Die(p)
  BY <1>3 DEF Start, ReadManifest, Reads, Load, Search, Die
<1>4. CASE CompactList(p) \/ CompactFails(p) \/ CompactDone(p) \/ Add(p) \/ AddPanics(p)
  BY <1>4 DEF CompactList, CompactFails, CompactDone, Add, AddPanics
<1>5. CASE SavePart(p) \/ SaveData(p) \/ TmpCreate(p) \/ TmpData(p) \/ RenameFails(p) \/ Acknowledge(p)
  BY <1>5 DEF SavePart, SaveData, TmpCreate, TmpData, RenameFails, Acknowledge
<1>. QED
  BY <1>1, <1>2, <1>3, <1>4, <1>5 DEF Step

LEMMA SearchSelf ==
  ASSUME TypeInv, FitInv, PromiseInv, SearchInv, NEW p \in Procs,
         Step(p) \/ Die(p) \/ (\E c \in Commands : Start(p, c)),
         p \notin upset', cmd'[p].name = "search"
  PROVE  Sees(p)'
<1> USE DEF TypeInv, Goto, disk, memory, history, promise, crossing
<1>1. CASE \E c \in Commands : Start(p, c)
  BY <1>1 DEF Start, Sees
<1>2. ASSUME cmd[p].name = "search", p \notin upset PROVE Sees(p)
  BY <1>2 DEF SearchInv
<1>3. CASE ReadManifest(p)
  <2>1. /\ UNCHANGED <<files, manifest, cmd, owed, acked, upset, mem>> /\ cmd[p].name = "search"
        /\ at[p] = "open"
    BY <1>3 DEF ReadManifest, Reads
  <2>2. Sees(p)
    BY <1>2, <2>1
  <2>3. \/ at'[p] = "unopened"
        \/ /\ at'[p] = "load" /\ handle'[p] = "own" /\ version'[p] = manifest.version
           /\ manifest.state = "whole"
    BY <1>3 DEF ReadManifest, Reads
  <2>4. CASE at'[p] = "unopened"
    BY <2>1, <2>2, <2>4 DEF Sees
  <2>5. CASE /\ at'[p] = "load" /\ handle'[p] = "own" /\ version'[p] = manifest.version
             /\ manifest.state = "whole"
    <3>1. CASE manifest.version = 0
      <4>1. manifest = WholeManifest(0)
        BY <2>5, <3>1 DEF Manifests, WholeManifest
      <4>2. acked = {}
        BY <4>1 DEF PromiseInv, Promised
      <4>. QED
        BY <2>1, <2>2, <2>5, <3>1, <4>2 DEF Sees
    <3>2. CASE manifest.version # 0
      <4>1. FileKeeps(manifest.version, Promised)
        BY <2>5, <3>2 DEF PromiseInv, Names
      <4>2. owed[p] \subseteq Promised
        BY <2>2 DEF Sees, Promised
      <4>3. FileKeeps(version[p], owed[p])'
        BY <2>1, <2>5, <4>1, <4>2 DEF FileKeeps, KeepsAll, Keeps
      <4>. QED
        BY <2>1, <2>2, <2>5, <3>2, <4>3 DEF Sees
    <3>. QED
      BY <3>1, <3>2
  <2>. QED
    BY <2>3, <2>4, <2>5
<1>4. CASE Load(p)
  <2>1. /\ UNCHANGED <<files, cmd, version, owed, acked, upset>> /\ at[p] = "load"
    BY <1>4 DEF Load
  <2>2. Sees(p)
    BY <1>2, <2>1
  <2>3. \/ at'[p] = "unopened"
        \/ /\ at'[p] = "run" /\ version[p] \in DOMAIN files /\ files[version[p]].whole
           /\ mem'[p] = files[version[p]].vs
    BY <1>4, <2>1, <2>2 DEF Load, Sees
  <2>4. at'[p] = "run" => KeepsAll(mem'[p], owed[p])
    BY <2>1, <2>2, <2>3 DEF Sees, FileKeeps, KeepsAll
  <2>. QED
    BY <2>1, <2>2, <2>3, <2>4 DEF Sees, KeepsAll, Keeps
<1>5. CASE Search(p) \/ Die(p)
  <2>1. /\ UNCHANGED <<cmd, mem, owed, acked, upset>> /\ at'[p] \in {"failed", "answered"}
        /\ at'[p] = "answered" => at[p] = "run"
    BY <1>5 DEF Search, Die, Runs
  <2>2. Sees(p)
    BY <1>2, <2>1
  <2>. QED
    BY <2>1, <2>2 DEF Sees, KeepsAll, Keeps
<1>6. ASSUME ~\E c \in Commands : Start(p, c), ~ReadManifest(p), ~Load(p), ~(Search(p) \/ Die(p))
      PROVE  FALSE
  <2>1. cmd'[p] = cmd[p]
    BY <1>6 DEF Step, CompactList, CompactRemove, CompactFails, CompactDone, Add, AddPanics, SaveCreate,
            SavePart, SaveData, TmpCreate, TmpData, Rename, RenameFails, Acknowledge
  <2>2. at[p] \notin Saving \cup {"print", "remove"} /\ cmd[p].name = "search"
    BY <2>1 DEF FitInv, Fits
  <2>3. ~(CompactList(p) \/ CompactRemove(p) \/ CompactFails(p) \/ CompactDone(p) \/ Add(p) \/ AddPanics(p))
    BY <2>2 DEF CompactList, CompactRemove, CompactFails, CompactDone, Add, AddPanics, Runs
  <2>4. ~(SaveCreate(p) \/ SavePart(p) \/ SaveData(p) \/ TmpCreate(p) \/ TmpData(p) \/ Rename(p)
          \/ RenameFails(p) \/ Acknowledge(p))
    BY <2>2 DEF SaveCreate, SavePart, SaveData, TmpCreate, TmpData, Rename, RenameFails, Acknowledge, Saving
  <2>. QED
    BY <1>6, <2>3, <2>4 DEF Step
<1>. QED
  BY <1>1, <1>3, <1>4, <1>5, <1>6

LEMMA SearchStep ==
  ASSUME TypeInv, FitInv, PromiseInv, SearchInv, [Next]_vars
  PROVE  SearchInv'
<1>1. CASE UNCHANGED vars
  BY <1>1 DEF vars, disk, memory, history, promise, crossing, SearchInv, Sees, FileKeeps, KeepsAll, Keeps
<1>2. ASSUME NEW p \in Procs, Step(p) \/ Die(p) \/ (\E c \in Commands : Start(p, c)) PROVE SearchInv'
  <2> SUFFICES ASSUME NEW q \in Procs, q \notin upset', cmd'[q].name = "search" PROVE Sees(q)'
    BY DEF SearchInv
  <2>1. CASE q = p
    BY <1>2, <2>1, SearchSelf
  <2>2. CASE q # p
    <3>1. /\ at'[q] = at[q] /\ cmd'[q] = cmd[q] /\ version'[q] = version[q] /\ mem'[q] = mem[q]
          /\ owed'[q] = owed[q]
      BY <1>2, <2>2, Frame
    <3>2. q \notin upset /\ acked \subseteq acked'
      BY <1>2, <2>2, Histories
    <3>3. Sees(q) /\ version[q] \in Nat
      BY <3>1, <3>2 DEF SearchInv, TypeInv
    <3>4. at[q] = "load" => handle'[q] # "shared"
      BY <1>2, <2>2, <3>3, NotShared DEF Sees
    <3>5. at[q] = "load" /\ version[q] # 0 => FileKeeps(version[q], owed[q])'
      <4>1. owed[q] \subseteq Promised
        BY <3>3 DEF Sees, Promised
      <4>2. ASSUME at[q] = "load", version[q] # 0, version[q] \in DOMAIN files', files'[version[q]].whole
            PROVE  KeepsAll(files'[version[q]].vs, owed[q])
        BY <1>2, <3>3, <4>1, <4>2, KeepsOnFile DEF Sees
      <4>. QED
        BY <3>1, <4>2 DEF FileKeeps, KeepsAll, Keeps
    <3>. QED
      BY <3>1, <3>2, <3>3, <3>4, <3>5 DEF Sees, KeepsAll, Keeps
  <2>. QED
    BY <2>1, <2>2
<1>. QED
  BY <1>1, <1>2 DEF Next

-----------------------------------------------------------------------------
(* What holds while no two writers have overlapped. *)

(* Only the commit of a create restores the order. *)
LEMMA OrderStays ==
  ASSUME TypeInv, FitInv, SoleInv, NEW p \in Procs,
         Step(p) \/ Die(p) \/ (\E c \in Commands : Start(p, c)), orderly'
  PROVE  orderly \/ (Rename(p) /\ p \in Writers \ crossed /\ tmp = WholeManifest(0))
<1> USE DEF TypeInv, disk, memory, history, promise, crossing
<1>1. CASE (\E c \in Commands : Start(p, c)) \/ ReadManifest(p)
  BY <1>1 DEF Start, ReadManifest, Reads, Joins
<1>2. CASE \/ Load(p) \/ Search(p) \/ Die(p) \/ CompactList(p) \/ CompactRemove(p) \/ CompactFails(p)
           \/ CompactDone(p) \/ Add(p) \/ AddPanics(p)
  BY <1>2 DEF Load, Search, Die, CompactList, CompactRemove, CompactFails, CompactDone, Add, AddPanics
<1>3. CASE SaveCreate(p) \/ SavePart(p) \/ SaveData(p) \/ TmpCreate(p) \/ RenameFails(p) \/ Acknowledge(p)
  BY <1>3 DEF SaveCreate, SavePart, SaveData, TmpCreate, RenameFails, Acknowledge
<1>4. CASE TmpData(p)
  <2>1. p \in Writers
    BY <1>4 DEF TmpData, Writers, Critical, FitInv, Fits, Saving
  <2>2. p \notin crossed => handle[p] = "own"
    BY <1>4, <2>1 DEF SoleInv, Sole, TmpData
  <2>. QED
    BY <1>4, <2>2 DEF TmpData, Commits
<1>5. CASE Rename(p)
  <2>1. p \in Writers
    BY <1>5 DEF Rename, Writers, Critical, FitInv, Fits, Saving
  <2>. QED
    BY <1>5, <2>1 DEF Rename, Commits
<1>. QED
  BY <1>1, <1>2, <1>3, <1>4, <1>5 DEF Step

(* A process that no step has surprised goes on to follow the commits. *)
LEMMA FollowsOn ==
  ASSUME TypeInv, Ordered, NEW p \in Procs,
         Step(p) \/ Die(p) \/ (\E c \in Commands : Start(p, c)),
         \A v \in DOMAIN snapshots : v \in DOMAIN snapshots' /\ snapshots'[v] = snapshots[v],
         NEW q \in Procs \ {p}, q \notin upset', Unopened(q) => Unopened(q)'
  PROVE  Follows(q)'
<1>1. /\ at'[q] = at[q] /\ cmd'[q] = cmd[q] /\ version'[q] = version[q] /\ mem'[q] = mem[q]
  BY Frame
<1>2. Follows(q)
  BY Histories DEF Ordered
<1>. QED
  BY <1>1, <1>2 DEF Follows

(* The file of a committed version holds what was committed. *)
LEMMA LoadOrder ==
  ASSUME TypeInv, CommitInv, NEW p \in Procs, Load(p), handle[p] # "shared",
         version[p] \in DOMAIN snapshots
  PROVE  \/ at'[p] = "run" /\ mem'[p] = snapshots[version[p]]
         \/ at'[p] = "unopened" /\ Unopened(p)'
<1> DEFINE v == version[p]
<1>1. UNCHANGED <<files, manifest, version>>
  BY DEF Load, disk
<1>2. v \in DOMAIN files => files[v] = Whole(snapshots[v]) \/ (v = 0 /\ files[v] = Torn)
  BY DEF CommitInv
<1>3. manifest # Absent /\ v \in 0..manifest.version /\ manifest.version \in DOMAIN files
      /\ manifest.version \in Nat
  BY DEF CommitInv, TypeInv, Manifests
<1>4. CASE v \in DOMAIN files /\ files[v].whole
  <2>1. at'[p] = "run" /\ mem'[p] = files[v].vs
    BY <1>4 DEF Load, Goto, TypeInv
  <2>. QED
    BY <1>2, <1>4, <2>1 DEF Whole, Torn
<1>5. CASE ~(v \in DOMAIN files /\ files[v].whole)
  <2>1. at'[p] = "unopened"
    BY <1>5 DEF Load, Goto, TypeInv
  <2>2. v \in DOMAIN files => v = 0 /\ 0 \in DOMAIN files /\ ~files[0].whole
    BY <1>2, <1>5 DEF Whole
  <2>3. v \notin DOMAIN files => v < manifest.version
    BY <1>3
  <2>4. Unopened(p)'
    BY <1>1, <2>2, <2>3 DEF Unopened
  <2>. QED
    BY <2>1, <2>4
<1>. QED
  BY <1>4, <1>5

(* Who does not write. *)
LEMMA OrderBystander ==
  ASSUME TypeInv, FitInv, SearchInv, Ordered, NEW p \in Procs, p \notin Writers,
         Step(p) \/ Die(p) \/ (\E c \in Commands : Start(p, c)), orderly'
  PROVE  Ordered'
<1>1. UNCHANGED <<files, manifest, snapshots>>
  BY Bystander DEF disk
<1>2. CommitInv'
  BY <1>1 DEF Ordered, CommitInv
<1>3. Writers' \cap crossed' = {} /\ \A q \in Writers' : Extends(q)'
  <2>1. ASSUME NEW q \in Writers', q # p PROVE q \in Writers /\ Extends(q)'
    <3>1. q \in Writers /\ q \in Procs
      BY <2>1, Joining DEF Writers
    <3>2. at'[q] = at[q] /\ cmd'[q] = cmd[q] /\ version'[q] = version[q] /\ mem'[q] = mem[q]
      BY <2>1, <3>1, Frame
    <3>. QED
      BY <1>1, <3>1, <3>2 DEF Ordered, Extends, Current
  <2>2. CASE p \in Writers' /\ Joins(p)
    <3>1. Writers = {} /\ crossed' = crossed \ {p}
      BY <2>2 DEF Joins, TypeInv
    <3>2. Extends(p)'
      <4>1. \/ cmd'[p].name = "create"
            \/ at'[p] = "load" /\ version'[p] = manifest.version /\ manifest.state = "whole"
        BY <2>2, Joining
      <4>. QED
        BY <1>1, <4>1 DEF Extends, Absent, Saving
    <3>. QED
      BY <2>1, <3>1, <3>2
  <2>3. CASE p \notin Writers' /\ crossed' = crossed
    BY <2>1, <2>3 DEF Ordered
  <2>. QED
    BY <2>2, <2>3, Joining
<1>4. ASSUME NEW q \in Procs, q # p, q \notin upset' PROVE Follows(q)'
  <2>1. version'[q] = version[q]
    BY <1>4, Frame
  <2>2. Unopened(q) => Unopened(q)'
    BY <1>1, <2>1 DEF Unopened
  <2>. QED
    BY <1>1, <1>4, <2>2, FollowsOn
<1>5. ASSUME p \notin upset' PROVE Follows(p)'
  <2> USE DEF TypeInv, Goto, disk, memory, history, promise, crossing
  <2>1. CASE \E c \in Commands : Start(p, c)
    <3>1. PICK c \in Commands : Start(p, c)
      BY <2>1
    <3>2. Goto(p, "save") \/ Goto(p, "refused") \/ Goto(p, "open")
      BY <3>1 DEF Start
    <3>3. at'[p] \in {"save", "refused", "open"}
      BY <3>2
    <3>. QED
      BY <3>3 DEF Follows
  <2>2. CASE ReadManifest(p)
    <3>1. \/ at'[p] = "load" /\ version'[p] = manifest.version /\ manifest.state = "whole"
          \/ at'[p] = "unopened" /\ manifest.state # "whole"
      BY <2>2 DEF ReadManifest, Reads
    <3>2. manifest.state = "whole" => manifest.version \in DOMAIN snapshots
      BY DEF Ordered, CommitInv, Absent, Manifests
    <3>3. manifest.state # "whole" => manifest = Absent
      BY DEF Ordered, CommitInv, WholeManifest
    <3>4. manifest' = manifest /\ snapshots' = snapshots
      BY <1>1
    <3>5. at'[p] = "load" => version'[p] \in DOMAIN snapshots'
      BY <3>1, <3>2, <3>4
    <3>6. at'[p] = "unopened" => Unopened(p)'
      BY <3>1, <3>3, <3>4 DEF Unopened
    <3>. QED
      BY <3>1, <3>5, <3>6 DEF Follows
  <2>3. p \in upset => \/ \E c \in Commands : Start(p, c)
                       \/ ReadManifest(p)
    <3>1. CASE Load(p) \/ Search(p) \/ Die(p) \/ CompactList(p) \/ CompactRemove(p) \/ CompactFails(p)
      BY <1>5, <3>1 DEF Load, Search, Die, CompactList, CompactRemove, CompactFails
    <3>2. CASE CompactDone(p) \/ Add(p) \/ AddPanics(p) \/ RenameFails(p) \/ Acknowledge(p)
      BY <1>5, <3>2 DEF CompactDone, Add, AddPanics, RenameFails, Acknowledge
    <3>3. ~(SaveCreate(p) \/ SavePart(p) \/ SaveData(p) \/ TmpCreate(p) \/ TmpData(p) \/ Rename(p))
      BY DEF SaveCreate, SavePart, SaveData, TmpCreate, TmpData, Rename, Writers, Critical, FitInv, Fits,
             Saving
    <3>. QED
      BY <3>1, <3>2, <3>3 DEF Step
  <2>4. CASE ~(\E c \in Commands : Start(p, c)) /\ ~ReadManifest(p)
    <3>1. Follows(p) /\ p \notin upset
      BY <2>3, <2>4 DEF Ordered
    <3>2. CASE Load(p)
      <4>1. cmd[p].name = "search" /\ at[p] = "load"
        BY <3>2 DEF Load, Writers, Critical
      <4>2. handle[p] # "shared" /\ version[p] \in DOMAIN snapshots
        BY <3>1, <4>1 DEF SearchInv, Sees, Follows
      <4>3. \/ at'[p] = "run" /\ mem'[p] = snapshots[version[p]]
            \/ at'[p] = "unopened" /\ Unopened(p)'
        BY <3>2, <4>2, LoadOrder DEF Ordered
      <4>4. version' = version
        BY <3>2 DEF Load
      <4>. QED
        BY <1>1, <4>2, <4>3, <4>4 DEF Follows
    <3>3. CASE Search(p) \/ Die(p)
      <4>1. /\ UNCHANGED <<cmd, version, mem>> /\ at'[p] \in {"failed", "answered"}
            /\ at'[p] = "answered" => at[p] = "run"
        BY <3>3 DEF Search, Die, Runs
      <4>. QED
        BY <1>1, <3>1, <4>1 DEF Follows
    <3>4. CASE Acknowledge(p)
      <4>1. cmd' = cmd /\ at'[p] = "answered" /\ cmd[p].name # "search"
        BY <3>4 DEF Acknowledge, FitInv, Fits
      <4>. QED
        BY <4>1 DEF Follows
    <3>5. ~(CompactList(p) \/ CompactRemove(p) \/ CompactFails(p) \/ CompactDone(p) \/ Add(p) \/ AddPanics(p)
            \/ SaveCreate(p) \/ SavePart(p) \/ SaveData(p) \/ TmpCreate(p) \/ TmpData(p) \/ Rename(p)
            \/ RenameFails(p))
      BY DEF CompactList, CompactRemove, CompactFails, CompactDone, Add, AddPanics, SaveCreate, SavePart,
             SaveData, TmpCreate, TmpData, Rename, RenameFails, Writers, Critical, FitInv, Fits, Saving, Runs
    <3>. QED
      BY <2>4, <3>2, <3>3, <3>4, <3>5 DEF Step
  <2>. QED
    BY <2>1, <2>2, <2>4
<1>. QED
  BY <1>2, <1>3, <1>4, <1>5 DEF Ordered

(* The writer, which is the only one. *)
LEMMA OrderSole ==
  ASSUME TypeInv, FitInv, Ordered, NEW p \in Writers, Sole(p), Step(p) \/ Die(p),
         crossed' = crossed, CommitInv', p \in Writers' => Extends(p)',
         \A q \in Procs : q \notin upset' => Follows(q)'
  PROVE  Ordered'
<1>1. p \in Procs /\ Writers = {p} /\ p \notin crossed
  BY DEF Sole, Writers, Ordered
<1>2. \A q \in Writers' : q = p
  BY <1>1, Joining DEF Writers
<1>. QED
  BY <1>1, <1>2 DEF Ordered

(* Steps that leave the index files and manifest.json as they are. *)
LEMMA OrderLocal ==
  ASSUME TypeInv, FitInv, Ordered, NEW p \in Writers, Sole(p), Step(p) \/ Die(p),
         UNCHANGED <<files, manifest, snapshots, crossed>>,
         p \in Writers' => Extends(p)', p \notin upset' => Follows(p)'
  PROVE  Ordered'
<1>1. p \in Procs
  BY DEF Writers
<1>2. CommitInv'
  BY DEF Ordered, CommitInv
<1>3. ASSUME NEW q \in Procs, q # p, q \notin upset' PROVE Follows(q)'
  <2>1. version'[q] = version[q]
    BY <1>1, <1>3, Frame
  <2>2. Unopened(q) => Unopened(q)'
    BY <2>1 DEF Unopened
  <2>. QED
    BY <1>1, <1>3, <2>2, FollowsOn
<1>. QED
  BY <1>2, <1>3, OrderSole DEF Ordered

LEMMA OrderRun ==
  ASSUME TypeInv, FitInv, Ordered, NEW p \in Writers, Sole(p),
         \/ Load(p) \/ Search(p) \/ Die(p) \/ CompactList(p) \/ CompactFails(p) \/ CompactDone(p)
         \/ Add(p) \/ AddPanics(p) \/ TmpCreate(p) \/ RenameFails(p)
  PROVE  Ordered'
<1> USE DEF TypeInv, Goto, disk, memory, history, promise, crossing
<1>1. p \in Procs /\ cmd[p].name # "search" /\ Extends(p) /\ (Step(p) \/ Die(p))
  BY DEF Writers, Ordered, Step
<1>2. UNCHANGED <<files, manifest, snapshots, crossed, cmd>>
  BY DEF Load, Search, Die, CompactList, CompactFails, CompactDone, Add, AddPanics, TmpCreate, RenameFails
<1>3. CASE Load(p)
  <2>1. at[p] = "load" /\ handle[p] = "own" /\ version' = version
    BY <1>3 DEF Load, Sole
  <2>2. cmd[p].name # "create"
    BY <1>1, <2>1 DEF FitInv, Fits, Ended, Saving
  <2>3. manifest # Absent /\ version[p] = manifest.version
    BY <1>1, <2>1, <2>2 DEF Extends
  <2>4. version[p] \in DOMAIN snapshots
    BY <2>3 DEF Ordered, CommitInv, Manifests
  <2>5. \/ at'[p] = "run" /\ mem'[p] = snapshots[version[p]]
        \/ at'[p] = "unopened" /\ Unopened(p)'
    BY <1>1, <1>3, <2>1, <2>4, LoadOrder DEF Ordered
  <2>6. p \in Writers' => Extends(p)'
    BY <1>2, <2>1, <2>3, <2>5 DEF Extends, Current, Writers, Critical, Saving
  <2>7. Follows(p)'
    BY <1>1, <1>2, <2>5 DEF Follows
  <2>. QED
    BY <1>1, <1>2, <2>6, <2>7, OrderLocal
<1>4. CASE Add(p)
  <2>1. at[p] = "run" /\ at'[p] = "save" /\ version'[p] = version[p] + 1 /\ cmd[p].name # "create"
    BY <1>1, <1>4 DEF Add, Runs
  <2>2. Extends(p)' /\ Follows(p)'
    BY <1>1, <1>2, <2>1 DEF Extends, Follows, Saving
  <2>. QED
    BY <1>1, <1>2, <2>2, OrderLocal
<1>5. CASE CompactList(p) \/ TmpCreate(p)
  <2>1. /\ version' = version
        /\ \/ at[p] = "run" /\ at'[p] = "remove"
           \/ at[p] = "tmp" /\ at'[p] = "fill"
    BY <1>1, <1>5 DEF CompactList, TmpCreate, Runs
  <2>2. Extends(p)' /\ Follows(p)'
    BY <1>1, <1>2, <2>1 DEF Extends, Follows, Saving
  <2>. QED
    BY <1>1, <1>2, <2>2, OrderLocal
<1>6. CASE Search(p) \/ Die(p) \/ CompactFails(p) \/ CompactDone(p) \/ AddPanics(p) \/ RenameFails(p)
  <2>1. at'[p] \in {"failed", "answered"}
    BY <1>1, <1>6 DEF Search, Die, CompactFails, CompactDone, AddPanics, RenameFails
  <2>2. p \notin Writers' /\ Follows(p)'
    BY <1>1, <1>2, <2>1 DEF Follows, Writers, Critical
  <2>. QED
    BY <1>1, <1>2, <2>2, OrderLocal
<1>. QED
  BY <1>3, <1>4, <1>5, <1>6

LEMMA OrderTmp ==
  ASSUME TypeInv, FitInv, Ordered, NEW p \in Writers, Sole(p), TmpData(p)
  PROVE  Ordered'
<1>1. p \in Procs /\ cmd[p].name # "search" /\ Extends(p) /\ Step(p)
  BY DEF Writers, Ordered, Step
<1>2. /\ UNCHANGED <<files, manifest, snapshots, crossed, cmd, version>>
      /\ at[p] = "fill" /\ at'[p] = "rename"
  BY <1>1 DEF TmpData, Sole, memory, history, promise, crossing, Goto, TypeInv
<1>3. Extends(p)' /\ Follows(p)'
  BY <1>1, <1>2 DEF Extends, Follows, Saving
<1>. QED
  BY <1>1, <1>2, <1>3, OrderLocal

(* compact spares the version it has opened, which is the committed one.   *)
LEMMA OrderCompact ==
  ASSUME TypeInv, FitInv, Ordered, NEW p \in Writers, Sole(p), CompactRemove(p)
  PROVE  Ordered'
<1>1. p \in Procs /\ Extends(p) /\ Step(p)
  BY DEF Writers, Ordered, Step
<1>2. /\ UNCHANGED <<manifest, snapshots, crossed, cmd, at, version>>
      /\ at[p] = "remove"
  BY DEF CompactRemove, history, promise, crossing
<1>3. PICK w \in DOMAIN files \ {version[p]} : files' = [u \in DOMAIN files \ {w} |-> files[u]]
  BY DEF CompactRemove
<1>4. /\ DOMAIN files' = DOMAIN files \ {w}
      /\ \A u \in DOMAIN files' : files'[u] = files[u]
  BY <1>3
<1>5. cmd[p].name = "compact"
  BY <1>1, <1>2 DEF FitInv, Fits
<1>6. manifest # Absent /\ version[p] = manifest.version /\ w # manifest.version
  BY <1>1, <1>2, <1>3, <1>5 DEF Extends
<1>7. CommitInv'
  BY <1>2, <1>4, <1>6 DEF Ordered, CommitInv
<1>8. Extends(p)' /\ Follows(p)'
  BY <1>1, <1>2, <1>5, <1>6 DEF Extends, Follows, Saving
<1>9. ASSUME NEW q \in Procs, q # p, q \notin upset' PROVE Follows(q)'
  <2>1. version[q] \in Nat /\ manifest.version \in Nat
    BY DEF TypeInv, Manifests
  <2>2. Unopened(q) => Unopened(q)'
    BY <1>2, <1>4, <1>6, <2>1 DEF Unopened
  <2>. QED
    BY <1>1, <1>2, <1>9, <2>2, FollowsOn
<1>. QED
  BY <1>2, <1>7, <1>8, <1>9, OrderSole, <1>1 DEF Ordered

(* A file that is written again is no committed one, or that of a create.  *)
LEMMA OrderSave ==
  ASSUME TypeInv, FitInv, Ordered, NEW p \in Writers, Sole(p),
         SaveCreate(p) \/ SavePart(p) \/ SaveData(p)
  PROVE  Ordered'
<1>1. p \in Procs /\ cmd[p].name # "search" /\ Extends(p) /\ Step(p)
  BY DEF Writers, Ordered, Step
<1>2. /\ UNCHANGED <<manifest, snapshots, crossed, cmd, version, mem>>
      /\ at[p] \in Saving /\ at'[p] \in {"data", "tmp"}
  BY <1>1 DEF SaveCreate, SavePart, SaveData, memory, history, promise, crossing, Goto, TypeInv, Saving
<1>3. PICK x \in {Torn, Whole(mem[p])} : files' = Put(files, version[p], x)
  BY DEF SaveCreate, SavePart, SaveData, Sole
<1>4. /\ DOMAIN files' = DOMAIN files \cup {version[p]} /\ files'[version[p]] = x
      /\ \A u \in DOMAIN files : u # version[p] => files'[u] = files[u]
  BY <1>3 DEF Put
<1>5. cmd[p].name = "create" => upset' = Procs
  BY <1>1 DEF SaveCreate, SavePart, SaveData, Surprise, Sole
<1>6. Extends(p)' /\ Follows(p)'
  BY <1>1, <1>2 DEF Extends, Follows, Saving
<1>7. CASE cmd[p].name = "create"
  <2>1. version[p] = 0 /\ mem[p] = <<>>
    BY <1>1, <1>2, <1>7 DEF FitInv, Fits
  <2>2. ASSUME NEW v \in DOMAIN snapshots, v \in DOMAIN files'
        PROVE  files'[v] = Whole(snapshots[v]) \/ (v = 0 /\ files'[v] = Torn)
    <3>1. CASE v = 0
      BY <1>4, <2>1, <3>1 DEF Ordered, CommitInv
    <3>2. CASE v # 0
      BY <1>4, <2>1, <2>2, <3>2 DEF Ordered, CommitInv
    <3>. QED
      BY <3>1, <3>2
  <2>3. CommitInv'
    BY <1>2, <1>4, <2>2 DEF Ordered, CommitInv
  <2>. QED
    BY <1>1, <1>2, <1>5, <1>6, <1>7, <2>3, OrderSole DEF Ordered
<1>8. CASE cmd[p].name # "create"
  <2>1. manifest # Absent /\ version[p] = manifest.version + 1 /\ manifest.version \in Nat
    BY <1>1, <1>2, <1>8 DEF Extends, TypeInv, Manifests
  <2>2. version[p] \notin DOMAIN snapshots /\ version[p] # 0
    BY <2>1 DEF Ordered, CommitInv
  <2>3. CommitInv'
    BY <1>2, <1>4, <2>2 DEF Ordered, CommitInv
  <2>4. ASSUME NEW q \in Procs, q # p, q \notin upset' PROVE Follows(q)'
    <3>1. version[q] \in Nat /\ version'[q] = version[q]
      BY <1>2 DEF TypeInv
    <3>2. Unopened(q) => Unopened(q)'
      BY <1>2, <1>4, <2>1, <2>2, <3>1 DEF Unopened
    <3>. QED
      BY <1>1, <1>2, <2>4, <3>2, FollowsOn
  <2>. QED
    BY <1>1, <1>2, <1>6, <2>3, <2>4, OrderSole DEF Ordered
<1>. QED
  BY <1>7, <1>8

LEMMA OrderCreated ==
  ASSUME TypeInv, FitInv, NEW p \in Writers, Sole(p), Rename(p), tmp = WholeManifest(0)
  PROVE  Ordered'
<1>1. p \in Procs /\ Step(p)
  BY DEF Writers, Step
<1>2. /\ UNCHANGED <<files, crossed>> /\ at[p] = "rename" /\ at'[p] = "print"
      /\ manifest' = WholeManifest(0) /\ snapshots' = [v \in {0} |-> <<>>] /\ upset' = Procs
  BY <1>1 DEF Rename, Commits, Goto, TypeInv
<1>3. version[p] = 0 /\ 0 \in DOMAIN files /\ files[0] = Whole(mem[p])
  BY <1>2 DEF Sole, WholeManifest
<1>4. mem[p] = <<>>
  BY <1>1, <1>2, <1>3 DEF FitInv, Fits, Saving
<1>5. manifest' # Absent /\ manifest'.version = 0
  BY <1>2 DEF Absent, WholeManifest
<1>6. CommitInv'
  <2>1. DOMAIN snapshots' = {0} /\ snapshots'[0] = <<>> /\ 0..0 = {0}
    BY <1>2
  <2>. QED
    BY <1>2, <1>3, <1>4, <1>5, <2>1 DEF CommitInv
<1>7. Writers' = {}
  <2>1. p \notin Writers'
    BY <1>2 DEF Writers, Critical
  <2>. QED
    BY <1>1, <2>1, Joining DEF Sole, Writers
<1>. QED
  BY <1>2, <1>6, <1>7 DEF Ordered

LEMMA OrderRename ==
  ASSUME TypeInv, FitInv, Ordered, NEW p \in Writers, Sole(p), Rename(p), tmp # WholeManifest(0)
  PROVE  Ordered'
<1> DEFINE m == manifest.version
           n == m + 1
<1>1. p \in Procs /\ Step(p) /\ Extends(p) /\ cmd[p].name # "search"
  BY DEF Writers, Step, Ordered
<1>2. /\ UNCHANGED <<files, crossed, cmd>> /\ at[p] = "rename" /\ at'[p] = "print"
      /\ manifest' = tmp /\ tmp = WholeManifest(version[p]) /\ upset' = upset
      /\ snapshots' = Put(snapshots, version[p], mem[p])
  BY <1>1 DEF Rename, Commits, Goto, TypeInv, Sole
<1>3. cmd[p].name # "create"
  BY <1>1, <1>2 DEF FitInv, Fits, Saving
<1>4. /\ manifest # Absent /\ version[p] = n /\ m \in Nat /\ DOMAIN snapshots = 0..m
  BY <1>1, <1>2, <1>3 DEF Extends, Saving, Ordered, CommitInv, TypeInv, Manifests
<1>5. n \in DOMAIN files /\ files[n] = Whole(mem[p])
  BY <1>2, <1>4 DEF Sole
<1>6. manifest' # Absent /\ manifest'.version = n /\ manifest' = WholeManifest(manifest'.version)
  BY <1>2, <1>4 DEF Absent, WholeManifest
<1>7. /\ DOMAIN snapshots' = 0..m \cup {n} /\ snapshots'[n] = mem[p]
      /\ \A u \in 0..m : u # n => snapshots'[u] = snapshots[u]
  BY <1>2, <1>4 DEF Put
<1>8. n \in Nat /\ 0..m \cup {n} = 0..n /\ \A u \in 0..m : u # n
  BY <1>4
<1> HIDE DEF n
<1>9. \A u \in 0..m : snapshots'[u] = snapshots[u]
  BY <1>7, <1>8
<1>10. CommitInv'
  <2>1. ASSUME NEW v \in 0..m \cup {n}, v \in DOMAIN files
        PROVE  files[v] = Whole(snapshots'[v]) \/ (v = 0 /\ files[v] = Torn)
    <3>1. CASE v = n
      BY <1>5, <1>7, <3>1
    <3>2. CASE v \in 0..m
      <4>1. files[v] = Whole(snapshots[v]) \/ (v = 0 /\ files[v] = Torn)
        BY <1>4, <2>1, <3>2 DEF Ordered, CommitInv
      <4>. QED
        BY <1>9, <3>2, <4>1
    <3>. QED
      BY <2>1, <3>1, <3>2
  <2>2. snapshots'[0] = <<>>
    <3>1. 0 \in 0..m
      BY <1>4
    <3>. QED
      BY <1>4, <1>9, <3>1 DEF Ordered, CommitInv
  <2>3. DOMAIN snapshots' = 0..manifest'.version /\ manifest'.version \in DOMAIN files'
    BY <1>2, <1>5, <1>6, <1>7, <1>8
  <2>4. \A v \in DOMAIN snapshots' :
          v \in DOMAIN files' => files'[v] = Whole(snapshots'[v]) \/ (v = 0 /\ files'[v] = Torn)
    BY <1>2, <1>7, <2>1
  <2>. QED
    BY <1>6, <2>2, <2>3, <2>4 DEF CommitInv
<1>11. p \notin Writers' /\ Follows(p)'
  BY <1>2 DEF Writers, Critical, Follows
<1>12. ASSUME NEW q \in Procs, q # p, q \notin upset' PROVE Follows(q)'
  <2>1. version[q] \in Nat /\ version'[q] = version[q]
    BY <1>1, <1>12, Frame DEF TypeInv
  <2>2. Unopened(q) => Unopened(q)'
    BY <1>2, <1>4, <1>6, <2>1 DEF Unopened, n
  <2>3. \A v \in DOMAIN snapshots : v \in DOMAIN snapshots' /\ snapshots'[v] = snapshots[v]
    BY <1>4, <1>7, <1>9
  <2>. QED
    BY <1>1, <1>12, <2>2, <2>3, FollowsOn
<1>. QED
  BY <1>1, <1>2, <1>10, <1>11, <1>12, OrderSole

LEMMA OrderStep ==
  ASSUME TypeInv, FitInv, SoleInv, SearchInv, OrderInv, [Next]_vars
  PROVE  OrderInv'
<1>1. CASE UNCHANGED vars
  BY <1>1 DEF vars, disk, memory, history, promise, crossing, OrderInv, Ordered, CommitInv, Extends,
              Follows, Unopened, Current, Writers
<1>2. ASSUME NEW p \in Procs, Step(p) \/ Die(p) \/ (\E c \in Commands : Start(p, c)), orderly'
      PROVE Ordered'
  <2>1. CASE Rename(p) /\ p \in Writers \ crossed /\ tmp = WholeManifest(0)
    BY <2>1, OrderCreated DEF SoleInv
  <2>2. CASE orderly /\ p \notin Writers
    BY <1>2, <2>2, OrderBystander DEF OrderInv
  <2>3. CASE orderly /\ p \in Writers /\ ~(Rename(p) /\ tmp = WholeManifest(0))
    <3>1. Ordered /\ Sole(p)
      BY <2>3 DEF OrderInv, Ordered, SoleInv
    <3>2. ~ReadManifest(p) /\ ~Acknowledge(p) /\ ~\E c \in Commands : Start(p, c)
      BY <2>3 DEF ReadManifest, Acknowledge, Start, Writers, Running, Ended, Critical
    <3>. QED
      BY <1>2, <2>3, <3>1, <3>2, OrderRun, OrderTmp, OrderCompact, OrderSave, OrderRename DEF Step
  <2>4. CASE orderly /\ p \in Writers /\ Rename(p) /\ tmp = WholeManifest(0)
    <3>1. p \notin crossed
      BY <2>4 DEF OrderInv, Ordered
    <3>. QED
      BY <2>1, <2>4, <3>1
  <2>. QED
    BY <1>2, <2>1, <2>2, <2>3, <2>4, OrderStays
<1>. QED
  BY <1>1, <1>2 DEF Next, OrderInv

-----------------------------------------------------------------------------
LEMMA CliInit == Init => CliInv
<1> SUFFICES ASSUME Init PROVE CliInv
  OBVIOUS
<1>1. Writers = {} /\ Pending = {}
  BY DEF Init, Writers, Pending, Critical
<1>2. SoleInv
  BY <1>1 DEF SoleInv
<1>3. PromiseInv
  BY <1>1 DEF Init, PromiseInv, Names, Absent, Promised
<1>4. SearchInv
  BY DEF Init, SearchInv, Sees
<1>5. OrderInv
  BY <1>1 DEF Init, OrderInv, Ordered, CommitInv, Follows
<1>. QED
  BY <1>2, <1>3, <1>4, <1>5, TypeInit DEF CliInv

LEMMA CliStep == CliInv /\ [Next]_vars => CliInv'
  BY TypeStep, SoleStep, PromiseStep, SearchStep, OrderStep DEF CliInv

(* A search finds every insert it was promised before it began, however    *)
(* many processes write, search, compact and die meanwhile; and while no   *)
(* two writers have overlapped, what it prints was committed as a whole.   *)
THEOREM SearchesSeeAcked == Spec => []SearchSeesAcked
<1>1. CliInv => SearchSeesAcked
  <2> SUFFICES ASSUME CliInv, NEW p \in Procs \ upset, at[p] = "answered", cmd[p].name = "search"
               PROVE  /\ orderly => version[p] \in DOMAIN snapshots /\ mem[p] = snapshots[version[p]]
                      /\ \A a \in owed[p] :
                           a.vs = SubSeq(mem[p], a.first + 1, a.first + Len(a.vs))
    BY DEF SearchSeesAcked
  <2>1. KeepsAll(mem[p], owed[p])
    BY DEF CliInv, SearchInv, Sees
  <2>2. orderly => version[p] \in DOMAIN snapshots /\ mem[p] = snapshots[version[p]]
    BY DEF CliInv, OrderInv, Ordered, Follows
  <2>3. mem[p] \in Seq(Vectors) /\ owed[p] \subseteq Answers
    BY DEF CliInv, TypeInv
  <2>4. \A a \in owed[p] : a.vs = SubSeq(mem[p], a.first + 1, a.first + Len(a.vs))
    BY <2>1, <2>3, Kept DEF KeepsAll
  <2>. QED
    BY <2>2, <2>4
<1>. QED
  BY <1>1, CliInit, CliStep, PTL DEF Spec

(* And while no two writers have overlapped, a directory that does not     *)
(* open has no database, or has lost the version that the command had read *)
(* of in the manifest to a newer one, or to a create that died.            *)
THEOREM OpensFailRightly == Spec => []OpenFailsOnlyWhen
<1>1. CliInv => OpenFailsOnlyWhen
  BY DEF CliInv, OrderInv, Ordered, Follows, Unopened, OpenFailsOnlyWhen
<1>. QED
  BY <1>1, CliInit, CliStep, PTL DEF Spec
=============================================================================

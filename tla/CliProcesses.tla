----------------------------- MODULE CliProcesses -----------------------------
(***************************************************************************)
(* The commands of src/src/cli.rs on one database directory.  Every        *)
(* command is a process of its own: it opens the Database of               *)
(* src/src/vdb.rs, with its own memory and its own write_lock, and all it  *)
(* shares with the others are index-<version>.vdb, manifest.json.tmp and   *)
(* manifest.json.  Nothing keeps two commands from writing at once.        *)
(*                                                                         *)
(* The locks of one process never wait, for it has one thread; they are in *)
(* Database.  Here are what they do not cover: other commands between the  *)
(* two files that a command opens, and between the steps of its save.  A   *)
(* file that is open stays the same file when its name goes to another or  *)
(* to none, so a process has a handle, which says what became of the name. *)
(*                                                                         *)
(* A command is a record of its name and its vectors; Malformed stands for *)
(* arguments that are refused before the directory is touched.             *)
(***************************************************************************)
EXTENDS Naturals, Sequences, FiniteSets

CONSTANTS
  Procs,        \* processes; one runs a command after the other
  Commands,     \* what users type
  Vectors,      \* what they store and ask for
  Malformed,    \* arguments that do not parse, or a dim that is no multiple of 64
  Wrong,        \* a vector of another dimension than the database's
  MaxCommands,  \* bound: commands,
  MaxDeaths     \* bound: and processes that are killed or meet an I/O error

Kinds == {"create", "insert", "batch_insert", "search", "compact"}

ASSUME CommandsAssumption ==
  \A c \in Commands : /\ DOMAIN c = {"name", "vs"} /\ c.name \in Kinds
                      /\ c.vs = Malformed \/ c.vs \in Seq(Vectors)
ASSUME BoundsAssumption == MaxCommands \in Nat /\ MaxDeaths \in Nat

VARIABLES
  files,      \* version |-> index-<version>.vdb,
  manifest,   \* manifest.json
  tmp,        \* and manifest.json.tmp
  cmd,        \* the command of each process,
  at,         \* and where it is
  version,    \* its manifest in memory,
  mem,        \* its index,
  first,      \* the id it will print,
  listed,     \* the versions a compact has found and not yet looked at,
  handle,     \* and the file it loads or fills: "own", "shared" with another
              \* that truncated it, "moved" from tmp to manifest, or "gone"
  snapshots,  \* what was committed since the last create: version |-> vectors
  acked,      \* inserts that were answered and are promised,
  owed,       \* and those that were before a process began
  upset,      \* processes that a create, or the filling of a file by two,
              \* may have surprised
  crossed,    \* writers that another one overlapped,
  orderly,    \* and whether there were none since the last create
  commands, deaths

disk == <<files, manifest, tmp>>
memory == <<version, mem, first, listed>>
promise == <<snapshots, acked, owed>>
crossing == <<crossed, orderly>>
history == <<promise, upset, crossing>>
counts == <<commands, deaths>>
vars == <<disk, cmd, at, memory, handle, history, counts>>

(* An index file; one that is cut off or mixed, which load_index refuses;  *)
(* and, for all the others that a mixture may be, one without its vectors: *)
(* a save takes the checksum of what it finds in the file, whoever wrote   *)
(* it, so that a mixture may load. The same for a manifest file, which is  *)
(* written at one go, and spoilt by the rest of a longer one.              *)
Whole(vs) == [whole |-> TRUE, vs |-> vs]
Torn == [whole |-> FALSE, vs |-> <<>>]
Mixed == Whole(<<>>)
Absent == [state |-> "absent", version |-> 0]
EmptyManifest == [state |-> "empty", version |-> 0]
TornManifest == [state |-> "torn", version |-> 0]
WholeManifest(v) == [state |-> "whole", version |-> v]

(* What a manifest file may hold when version v is written over it. *)
Filled(m, v) ==
  IF m.state = "torn" \/ (m.state = "whole" /\ m.version > v)
  THEN {WholeManifest(v), TornManifest} ELSE {WholeManifest(v)}

Put(f, v, x) == [u \in DOMAIN f \cup {v} |-> IF u = v THEN x ELSE f[u]]

Idle == [name |-> "search", vs |-> Malformed]

Init ==
  /\ files = [v \in {} |-> Torn] /\ manifest = Absent /\ tmp = Absent
  /\ cmd = [p \in Procs |-> Idle]
  /\ at = [p \in Procs |-> "off"]
  /\ version = [p \in Procs |-> 0]
  /\ mem = [p \in Procs |-> <<>>]
  /\ first = [p \in Procs |-> 0]
  /\ listed = [p \in Procs |-> {}]
  /\ handle = [p \in Procs |-> "own"]
  /\ snapshots = [v \in {} |-> <<>>] /\ acked = {}
  /\ owed = [p \in Procs |-> {}]
  /\ upset = {} /\ crossed = {} /\ orderly = TRUE
  /\ commands = 0 /\ deaths = 0

Ended == {"off", "refused", "unopened", "failed", "answered"}

Running == {p \in Procs : at[p] \notin Ended}

(* Commands that write, from their look at manifest.json to their commit.  *)
Critical == {"load", "run", "remove", "save", "data", "tmp", "fill", "rename"}
Writers == {p \in Procs : at[p] \in Critical /\ cmd[p].name # "search"}

Goto(p, l) == at' = [at EXCEPT ![p] = l]

HasWrong(vs) == \E i \in DOMAIN vs : vs[i] = Wrong

(* History: p becomes a writer. *)
Joins(p) ==
  /\ IF Writers = {}
     THEN crossed' = crossed \ {p} /\ UNCHANGED orderly
     ELSE crossed' = crossed \cup {p} \cup Writers /\ orderly' = FALSE
  /\ upset' = upset \ {p}

-----------------------------------------------------------------------------
(* main parses the arguments; an empty index is all that create needs.     *)
Start(p, c) ==
  /\ p \notin Running /\ commands < MaxCommands
  /\ cmd' = [cmd EXCEPT ![p] = c]
  /\ version' = [version EXCEPT ![p] = 0]
  /\ mem' = [mem EXCEPT ![p] = <<>>]
  /\ owed' = [owed EXCEPT ![p] = acked]
  /\ IF c.name = "create" /\ c.vs # Malformed
     THEN Goto(p, "save") /\ Joins(p)
     ELSE /\ Goto(p, IF c.vs = Malformed THEN "refused" ELSE "open")
          /\ upset' = upset \ {p} /\ UNCHANGED crossing
  /\ commands' = commands + 1
  /\ UNCHANGED <<disk, first, listed, handle, snapshots, acked, deaths>>

(* Database::open: the manifest, *)

Reads(p, v) ==
  /\ version' = [version EXCEPT ![p] = v]
  /\ handle' = [handle EXCEPT ![p] = "own"]
  /\ Goto(p, "load")
  /\ IF cmd[p].name = "search" THEN UNCHANGED <<upset, crossing>> ELSE Joins(p)

(* Variant: open takes the newest index file, without the manifest. *)
ReadNewest(p) ==
  /\ at[p] = "open" /\ DOMAIN files # {}
  /\ Reads(p, CHOOSE v \in DOMAIN files : \A u \in DOMAIN files : u <= v)
  /\ UNCHANGED <<disk, cmd, mem, first, listed, promise, counts>>

ReadManifest(p) ==
  /\ at[p] = "open"
  /\ \/ manifest.state = "whole" /\ Reads(p, manifest.version)
     \/ /\ manifest.state # "whole" /\ Goto(p, "unopened")
        /\ UNCHANGED <<version, handle, upset, crossing>>
  /\ UNCHANGED <<disk, cmd, mem, first, listed, promise, counts>>

(* and then the file that it named, which another may write anew meanwhile. *)
Load(p) ==
  /\ at[p] = "load"
  /\ LET v == version[p]
         loads == v \in DOMAIN files /\ files[v].whole
     IN \/ /\ loads /\ mem' = [mem EXCEPT ![p] = files[v].vs]
           /\ Goto(p, "run")
        \/ /\ handle[p] = "shared" /\ mem' = [mem EXCEPT ![p] = Mixed.vs]
           /\ Goto(p, "run")
        \/ /\ ~loads \/ handle[p] = "shared"
           /\ Goto(p, "unopened") /\ UNCHANGED mem
  /\ UNCHANGED <<disk, cmd, version, first, listed, handle, history, counts>>

-----------------------------------------------------------------------------
Runs(p, names) == at[p] = "run" /\ cmd[p].name \in names

(* Database::search and the printing. *)
Search(p) ==
  /\ Runs(p, {"search"})
  /\ Goto(p, IF HasWrong(cmd[p].vs) THEN "failed" ELSE "answered")
  /\ UNCHANGED <<disk, cmd, memory, handle, history, counts>>

(* compact lists the directory and removes one file after the other, all   *)
(* but its manifest's; a file that comes later may be listed as well.      *)
CompactList(p) ==
  /\ Runs(p, {"compact"})
  /\ listed' = [listed EXCEPT ![p] = DOMAIN files]
  /\ Goto(p, "remove")
  /\ UNCHANGED <<disk, cmd, version, mem, first, handle, history, counts>>

CompactRemove(p) ==
  /\ at[p] = "remove"
  /\ \E v \in DOMAIN files \ {version[p]} :
       /\ files' = [u \in DOMAIN files \ {v} |-> files[u]]
       /\ listed' = [listed EXCEPT ![p] = @ \ {v}]
       /\ handle' = [q \in Procs |-> IF at[q] = "data" /\ version[q] = v THEN "gone"
                                     ELSE handle[q]]
  /\ UNCHANGED <<manifest, tmp, cmd, at, version, mem, first, history, counts>>

(* Another compact was faster: remove_file fails. *)
CompactFails(p) ==
  /\ at[p] = "remove" /\ ~(listed[p] \subseteq DOMAIN files \cup {version[p]})
  /\ Goto(p, "failed")
  /\ UNCHANGED <<disk, cmd, memory, handle, history, counts>>

CompactDone(p) ==
  /\ at[p] = "remove" /\ listed[p] \subseteq {version[p]}
  /\ Goto(p, "answered")
  /\ UNCHANGED <<disk, cmd, memory, handle, history, counts>>

(* insert and batch_insert add to the index in memory; a vector of another *)
(* dimension panics before anything is saved.                              *)

(* Variant: the version is not counted up. *)
AddSameVersion(p) ==
  /\ Runs(p, {"insert", "batch_insert"}) /\ ~HasWrong(cmd[p].vs)
  /\ first' = [first EXCEPT ![p] = Len(mem[p])]
  /\ mem' = [mem EXCEPT ![p] = @ \o cmd[p].vs]
  /\ Goto(p, "save")
  /\ UNCHANGED <<disk, cmd, version, listed, handle, history, counts>>

Add(p) ==
  /\ Runs(p, {"insert", "batch_insert"}) /\ ~HasWrong(cmd[p].vs)
  /\ first' = [first EXCEPT ![p] = IF cmd[p].vs = <<>> THEN 0 ELSE Len(mem[p])]
  /\ mem' = [mem EXCEPT ![p] = @ \o cmd[p].vs]
  /\ version' = [version EXCEPT ![p] = @ + 1]
  /\ Goto(p, "save")
  /\ UNCHANGED <<disk, cmd, listed, handle, history, counts>>

AddPanics(p) ==
  /\ Runs(p, {"insert", "batch_insert"}) /\ HasWrong(cmd[p].vs)
  /\ Goto(p, "failed")
  /\ UNCHANGED <<disk, cmd, memory, handle, history, counts>>

-----------------------------------------------------------------------------
(* A save: save_index truncates and fills the file, fs::write truncates    *)
(* and fills manifest.json.tmp, and the rename commits.                    *)

(* Others that fill or load the file that p is about to truncate. *)
Sharers(p) == {q \in Procs \ {p} : /\ at[q] \in {"data", "load"} /\ handle[q] # "gone"
                                   /\ version[q] = version[p]}

(* History: a step of a create may surprise any process. *)
Surprise(p) == upset' = IF cmd[p].name = "create" THEN Procs ELSE upset

(* When two fill a file, or one that a writer loads, nothing that it held  *)
(* is promised any longer; a search that loads it is surprised.            *)
SaveCreate(p) ==
  /\ at[p] = "save"
  /\ files' = Put(files, version[p], Torn)
  /\ handle' = [q \in Procs |->
       IF q \in Sharers(p) \/ (q = p /\ \E s \in Sharers(p) : at[s] = "data") THEN "shared"
       ELSE IF q = p THEN "own" ELSE handle[q]]
  /\ IF Sharers(p) \cap Writers # {} THEN acked' = {} /\ upset' = Procs
     ELSE /\ upset' = IF cmd[p].name = "create" THEN Procs ELSE upset \cup Sharers(p)
          /\ UNCHANGED acked
  /\ Goto(p, "data")
  /\ UNCHANGED <<manifest, tmp, cmd, memory, snapshots, owed, crossing, counts>>

(* Of a file that two fill, one may destroy what the other has written.    *)
SavePart(p) ==
  /\ at[p] = "data" /\ handle[p] = "shared"
  /\ files' = Put(files, version[p], Torn)
  /\ UNCHANGED <<manifest, tmp, cmd, at, memory, handle, history, counts>>

SaveData(p) ==
  /\ at[p] = "data"
  /\ \/ handle[p] = "own" /\ files' = Put(files, version[p], Whole(mem[p]))
     \/ /\ handle[p] = "shared"
        /\ \E x \in {Torn, Mixed, Whole(mem[p])} : files' = Put(files, version[p], x)
     \/ handle[p] = "gone" /\ UNCHANGED files
  /\ Goto(p, "tmp") /\ Surprise(p)
  /\ UNCHANGED <<manifest, tmp, cmd, memory, handle, promise, crossing, counts>>

(* History: manifest.json becomes m. One that names version 0 starts over: *)
(* what there was before is no longer promised.                            *)
Commits(p, m) ==
  IF m = WholeManifest(0)
  THEN /\ snapshots' = [v \in {0} |-> <<>>] /\ acked' = {} /\ upset' = Procs
       /\ orderly' = (orderly \/ p \notin crossed)
  ELSE /\ snapshots' = Put(snapshots, version[p], mem[p])
       /\ UNCHANGED <<acked, upset, orderly>>

TmpCreate(p) ==
  /\ at[p] = "tmp"
  /\ tmp' = EmptyManifest
  /\ handle' = [handle EXCEPT ![p] = "own"] /\ Goto(p, "fill")
  /\ UNCHANGED <<files, manifest, cmd, memory, history, counts>>

TmpData(p) ==
  /\ at[p] = "fill"
  /\ \/ /\ handle[p] = "own" /\ tmp' \in Filled(tmp, version[p])
        /\ UNCHANGED <<manifest, history>>
     \/ /\ handle[p] = "moved" /\ manifest' \in Filled(manifest, version[p])
        /\ Commits(p, manifest') /\ UNCHANGED <<tmp, owed, crossed>>
     \/ handle[p] = "gone" /\ UNCHANGED <<manifest, tmp, history>>
  /\ Goto(p, "rename")
  /\ UNCHANGED <<files, cmd, memory, handle, counts>>

(* Who has tmp open has manifest.json open afterwards. *)
Rename(p) ==
  /\ at[p] = "rename" /\ tmp # Absent
  /\ manifest' = tmp /\ tmp' = Absent
  /\ handle' = [q \in Procs |-> IF at[q] # "fill" THEN handle[q]
                                ELSE IF handle[q] = "own" THEN "moved" ELSE "gone"]
  /\ Commits(p, tmp)
  /\ Goto(p, "print")
  /\ UNCHANGED <<files, cmd, memory, owed, crossed, counts>>

(* Another has renamed the file. *)
RenameFails(p) ==
  /\ at[p] = "rename" /\ tmp = Absent
  /\ Goto(p, "failed")
  /\ UNCHANGED <<disk, cmd, memory, handle, history, counts>>

(* The id is printed. It is a promise if no other writer, and no create,   *)
(* came between the command's look at the manifest and this.               *)
Acknowledge(p) ==
  /\ at[p] = "print"
  /\ acked' = IF cmd[p].name = "create" \/ p \in crossed \cup upset THEN acked
              ELSE acked \cup {[first |-> first[p], vs |-> cmd[p].vs]}
  /\ Goto(p, "answered")
  /\ UNCHANGED <<disk, cmd, memory, handle, snapshots, owed, upset, crossing, counts>>

(* A process is killed, or a file operation fails and run answers Err:     *)
(* what it has done to the files stays.                                    *)
Die(p) ==
  /\ p \in Running /\ deaths < MaxDeaths
  /\ Goto(p, "failed")
  /\ deaths' = deaths + 1
  /\ UNCHANGED <<disk, cmd, memory, handle, history, commands>>

-----------------------------------------------------------------------------
Step(p) ==
  \/ ReadManifest(p) \/ Load(p) \/ Search(p) \/ Add(p) \/ AddPanics(p)
  \/ CompactList(p) \/ CompactRemove(p) \/ CompactFails(p) \/ CompactDone(p)
  \/ SaveCreate(p) \/ SavePart(p) \/ SaveData(p) \/ TmpCreate(p) \/ TmpData(p)
  \/ Rename(p) \/ RenameFails(p) \/ Acknowledge(p)

Next == \E p \in Procs : Step(p) \/ Die(p) \/ \E c \in Commands : Start(p, c)

Spec == Init /\ [][Next]_vars

-----------------------------------------------------------------------------
(* Every insert that was promised before a search began is in what the     *)
(* search prints, under the id it was told: whatever is saved, compacted   *)
(* or killed between the search's look at manifest.json and at the index   *)
(* file, also by commands that write at the same time. The promise is to   *)
(* an insert that no other writer overlapped; a later create ends it, and  *)
(* so do two commands that fill one index file at once. And while no two   *)
(* writers have overlapped, what is printed was committed as a whole.      *)
SearchSeesAcked ==
  \A p \in Procs \ upset :
    at[p] = "answered" /\ cmd[p].name = "search" =>
      /\ orderly => version[p] \in DOMAIN snapshots /\ mem[p] = snapshots[version[p]]
      /\ \A a \in owed[p] :
           a.vs = SubSeq(mem[p], a.first + 1, a.first + Len(a.vs))

(* A command that cannot open the directory, with no create meanwhile, has *)
(* found no database; or a version that others have left behind and        *)
(* compacted after it read the manifest; or version 0 cut off by a create  *)
(* that died. The version manifest.json names always opens otherwise,      *)
(* unless two writers have overlapped since the directory was created.     *)
OpenFailsOnlyWhen ==
  orderly => \A p \in Procs \ upset :
    at[p] = "unopened" =>
      \/ manifest = Absent
      \/ version[p] < manifest.version /\ version[p] \notin DOMAIN files
      \/ version[p] = 0 /\ 0 \in DOMAIN files /\ ~files[0].whole

(* A compact keeps the version that manifest.json names, as vdb.rs:164     *)
(* says: the manifest never names a file that is not there.                *)
ManifestNamesAFile == manifest.state = "whole" => manifest.version \in DOMAIN files
=============================================================================

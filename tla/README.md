# Verification of vdb.rs

TLA+ models of vdb.rs, a vector database in Rust: an embedded store of vectors with versions on
disk, an IVF + RaBitQ index with SQL filters, memory-mapped read-only views, and two servers. Each
module translates one part of `src/src`; TLC checks the models on small instances, and TLAPS proves
the most important results for every instance. `PROJECT.json` ties every definition to its source
lines, every property to the hazards it is there for and to a mutation of the code that it catches.

- [The system](#the-system): components, state, interactions, hazards
- [Modules and code](#modules-and-code): how each model reads the source
- [Runs](#runs): what is checked, within which bounds
- [Fairness](#fairness)
- [Proofs](#proofs)
- [Findings](#findings): where the code and its documents disagree
- [What is not modelled](#what-is-not-modelled)
- [Plan](#plan)

To check a run: `tlc -config <cfg> <module>`. To check the proofs: `tlapm` on each of
`DatabaseProofs.tla`, `ChunkCacheProofs.tla`, `ThreadPoolProofs.tla`, `IvfSearchProofs.tla`
(of IvfIndex, SqlFilter, IvfSearch and SqlParse), `IndexFileProofs.tla`, `NngServerProofs.tla` (of NngServer and NngPayload),
`HttpServerProofs.tla` and `CliProcessesProofs.tla`.

## The system

| Component (source) | State it keeps | Operations | Hard behaviours | What makes it correct |
|---|---|---|---|---|
| Database (`vdb.rs`) | index behind a RwLock, manifest behind a Mutex, `write_lock`; on disk `index-<v>.vdb`, `manifest.json`, `manifest.json.tmp` | create, open, insert, batch_insert, compact, search, stats | threads at three locks in opposite orders; a save is a dozen file operations, any of which may fail or be the last; panics poison locks | the directory always opens at the last commit; acknowledged inserts stay; ids are stable; batches are atomic; no deadlock |
| MmapDatabase (`vdb.rs`) | the file it opened | open, search | reads the manifest, then the file, while the owner saves and compacts | a view is one committed snapshot, or an error |
| ChunkedMmapStorage (`mmap_index.rs`) | cached chunks, LRU queue, byte count, Arcs in use | read | three locks taken at different times, eviction against users without a lock, duplicate loads | reads are exact; queue and count match the cache; the budget is kept |
| MmapIndex (`mmap_index.rs`), storage (`storage.rs`) | the index file | save_index, load_index, load_index_mmap, open | a stop between any two writes; header before checksum; streaming check with a window | a torn or changed file is refused; a whole one loads as saved, by every loader |
| IvfRabitqIndex (`index_ivf_rq.rs`) | partitions, centroids, raw vectors, payloads, id map, statistics, SQ8 codes | new, build, add, rebuild_sq8, from_parts | parallel arrays; derived data that is recomputed on load or goes stale | every id is in one partition, the nearest; derived data says what the inserts made |
| search (`search.rs`), SQL (`sql.rs`) | none | search, flat_search, eval, can_partition_match, parse_sql_filter | filter, routing, nprobe, refine_k and k cut one after the other | no true answer is cut off; pushdown never skips a match; the parser follows the grammar |
| ThreadPool (`thread_pool.rs`) | channel, count, condition variable | execute, wait, join | lost wake-ups, panicking tasks, a channel closed with tasks in it | wait and join return exactly when they may |
| NNG server (`nng_server.rs`) | index behind a Mutex, one thread and one descriptor per connection | ping, search, batch, insert, import, export | descriptors closed twice and reused, panics under the Mutex, requests of several vectors, two formats without a tag | ids, imports and batches are atomic for others; the formats are told apart; connections end |
| HTTP server (`http_server.rs`, `server.rs`) | index behind a Mutex, one libevent loop, the boxed context of a run | bind, run, stop, drop; search, insert, batch insert, stats, the page | stop from another thread, before, in and after a run; a context that is freed when run returns while connections live on; a panic in a C callback | the context outlives the callbacks; answers stay true; requests end while run goes on; a stop ends it |
| CLI (`cli.rs`) | none of its own: each command opens a Database | create, insert, batch-insert, search, compact; tune, which only recommends | several processes on one directory, each with a `write_lock` of its own; a kill between two writes | a search prints all that was promised before it, as one committed snapshot if no two writers overlapped |
| hybrid, simd, sys_info, fulltext, gpu, benchmark, lib | none | | | pure functions, stubs or drivers |

How they interact: Database owns an IvfRabitqIndex and saves it whole through storage at every
write; MmapDatabase opens what Database saved as an MmapIndex, which reads through
ChunkedMmapStorage; all searches share `search.rs` (or the MmapIndex's own copy of it), the
statistics of the index and the SQL filter. The servers hold an index of their own in memory and
save nothing. `search` uses the ThreadPool only as a flag.

The hazards, each at its line and with its properties, are in `PROJECT.json` under "hazards".

## Modules and code

| Module | Models | Extends |
|---|---|---|
| `VersionedStore` | abstract: what an embedded database promises | |
| `Database` | `vdb.rs`: Database and the opening of MmapDatabase; refines `VersionedStore` | |
| `DatabaseInv` | its inductive invariants | `Database` |
| `DatabaseProofs` | proofs from `DiskInv`, `AckInv` and `ViewInv`, and of the refinement | `DatabaseInv` |
| `CliProcesses`, `CliProcessesProofs` | `cli.rs`: commands as processes on one directory, and proofs | |
| `ChunkCache`, `ChunkCacheProofs` | ChunkedMmapStorage, and proofs | |
| `ThreadPool`, `ThreadPoolProofs` | ThreadPool, and proofs | |
| `IvfIndex` | IvfRabitqIndex | |
| `SqlAtoms`, `SqlFilter` | comparisons; trees of them | |
| `SqlParse` | the Parser of `sql.rs`, against its grammar | |
| `IvfSearch`, `IvfSearchProofs` | the three searches, on an `IvfIndex`, and proofs about both and about `SqlParse` | `IvfIndex`, `SqlFilter` |
| `IndexFile`, `IndexFileProofs` | save_index and the three loaders, and proofs | |
| `NngServer`, `NngServerProofs` | threads, descriptors and the Mutex of the NNG server, and proofs about it and its payloads | |
| `NngPayload` | parsers of its search payloads | |
| `HttpServer`, `HttpServerProofs` | the HTTP server on libevent's loop, and proofs | |
| `MC*` | instances for TLC | the module they are named for |

**Database.** A thread has a program counter whose labels are the calls of the code, so that threads
interleave at every lock and every file operation: `write_lock`, `index.write()`, `add` per vector,
the manifest Mutex, `index.read()`, truncate and fill `index-<v>.vdb`, truncate and fill
`manifest.json.tmp`, rename, and the bump of the manifest in memory. The RwLock prefers writers (a
waiting writer blocks new readers), the choice of Rust's library that makes deadlocks possible at
all. A file operation may fail at any point (`MaxFaults`), which leaves what was written; a vector
of another dimension panics and poisons the locks its thread holds; the process may die anywhere
(`MaxCrashes`), which keeps the disk and clears memory. Readers open views in two steps. An
`"unwind"` build is modelled: in a release build (`panic = "abort"`) a panic is a death of the
process. `history` and `acked` are the ghosts that `VersionedStore` needs: the refinement maps the
last committed snapshot and the in-memory index to its `history` and `live`.

**CliProcesses.** The same directory from outside: a command is a process that opens it, works and
ends, and two commands share nothing but the files. Since a process has one thread, its locks never
wait and are left out; what is kept are the file operations, in the order of `vdb.rs`, and the two
steps of open. Any number of commands write at once, as nothing in the code prevents it, so a
process has a `handle`: a file stays the file it opened when another command truncates it
("shared"), when a rename gives it another name ("moved") or none, or when a compact removes it
("gone"). What two writers leave in one file is a choice: whole, cut off, or a mixture that loads,
since `save_index` reads the file back for its checksum.

Two writers can lose what one of them was told, so the model keeps a history of what is promised.
`crossed` are the writers (from their look at `manifest.json` to the rename) that another one
overlapped; `orderly` says that there were none since the last create; `upset` are the processes
that a create, or the filling of one file by two, may have surprised. `acked` are the inserts that
were answered, were not crossed and not upset; it is emptied by a create over the database and when
a save truncates a file that another writer loads or fills.

**ChunkCache.** A reader passes "get" (lookup and clone of the Arc under `chunks.lock()`), "map",
"install", "evict" and "touch". What Arcs exist is read off the labels, so `strong_count` is what
the other readers do at that moment.

**ThreadPool.** Callers and workers with the channel, the count and the condition variable. A wait
checks and sleeps atomically with respect to the count's Mutex; it may wake for no reason.

**IvfIndex, IvfSearch.** A vector is a point of a line and its code is the point. What the model
keeps is the bookkeeping: the arrays, the partitions, the statistics (ranges, string sets with their
cap), the codes and their dirty flag. RaBitQ's estimate is abstracted to "any order of the
candidates": a search is the set of answers it may give, and a property of a search must hold for
each of them. K-means may end with any centroids when there are more vectors than partitions; with
fewer, it copies them, as the code does, and leaves partitions without a centroid: a search that
would index past the centroids panics, so it answers nothing (`Routable`), and a load fails.

**SqlFilter.** A filter is a tree of comparisons, `Trees` a set of them with all their parts, and
`Height` says that they are finite; `Eval` and `Match` are recursive functions over `Trees`.

**SqlParse.** One operator per parsing function. `ParseComparison` is a recursive function of the
position, because an operand in parentheses looks only at what is behind it; `parse_or` and
`parse_and` are the same `Loop` with another operator and other operands. The reference `Grammar` is
written differently: a filter is split at its last operator outside of parentheses, and depth is a
difference of two counts.

**IndexFile.** A file is a sequence of cells, one for each thing that is written. `save_index`
appends region by region, then writes the header and then the checksum, and may stop at any cell. A
CRC is the sequence of cells it was computed over.

**NngServer.** A frame is two tokens, because the server reads it with two calls. A thread knows its
connection by a descriptor, which is looked up in the table of the process at each recv, send and
close; accept takes the lowest free number. Both calls of close are in the model, so a thread may
read from, answer on, or close a connection of someone else, and a frame whose two parts are read by
two threads becomes a frame nobody sent. A panic is what the build makes of it: the thread's end,
past both calls of close, or the end of the process. A workload says which clients connect, with how
many descriptors, and what they send; `Init` takes any of them.

**HttpServer.** libevent is external; its loop is modelled as far as the code depends on it: it
looks at its exit flag, sleeps until a connection is ready or does not sleep if a callback is
queued, and runs the callbacks one by one, on the thread of `run`. Connections, and what is in their
buffers, outlive a run. `boxes` are the `Box<Arc<..>>` a run has allocated and `gencb` is the one
the callback is given. No thread support is ever given to libevent, so that `stop` neither wakes the
loop nor takes a lock on its queue: its insertion may be lost while the loop is at work (a data
race), and otherwise waits for the next event. A panic in the callback aborts the process in every
build.

**NngPayload.** A payload is its length and the words at the offsets the parsers look at. `Word` and
`Usize` stand for 2^32 and 2^64, arithmetic wraps or panics by the profile.

## Runs

Passing runs:

| Run | Question | Bounds, and why they are enough |
|---|---|---|
| `database` | does the inductive invariant hold, is the directory recoverable, are acknowledged inserts kept in id order, batches atomic, views stable, committed files never rewritten, locks free of deadlock? Does it implement `VersionedStore`? Does every call return? | 3 threads: one writer, one that waits for it and one reader is what a cycle through the RwLock needs; 3 calls, a view, a fault and 2 deaths: a save that fails, a death, a reopened database that writes the same version again, poisoned locks included |
| `cli_processes` | does a search see all that was promised before it? When may an open fail? | 2 processes that may both write, 5 commands, 2 deaths: a search between the manifest and the file while another command saves and compacts, two inserts of one version, a compact under a save, a create over a database with a version or under an insert, a death in each of them |
| `chunk_cache` | are reads exact, do queue, count and cache agree, how far over budget can it get? Does every read end? | a file of 5 chunks with a short last one, a budget of one chunk and a half, reads across and at the edge of chunks; 3 readers: two miss the same chunk while a third holds another |
| `thread_pool` | is the count exact, are wait and join on time, and do callers return until a task panics? | 2 callers, 2 workers, 3 tasks, one of which panics |
| `search` | do arrays, partitions, statistics and the SQ8 flag agree, is no partition with a match skipped where its statistics describe it, are exhaustive searches exact, probes spent well, stored vectors found, answers the same after a reload? | every new or built index of up to 4 vectors of 2 points and 4 payloads, k-means of three vectors into two partitions and a build of one vector, with a partition without a centroid, included; string sets of two members so that full ones occur; every comparison with every value and trees of two for the pushdown, every order of the estimate for the searches |
| `parsers` | does the SQL parser follow the grammar? Are the formats of NNG payloads told apart whatever the queries hold? | 7 pieces allow `a OR b AND c OR d` and parentheses in any place; 5 single tokens all malformed beginnings. Words of 3 bits, a usize of 6: products overflow as u32 does u64; every value of every word |
| `index_file` | is a torn or changed file refused, a whole one loaded as saved? | four indexes of different shapes, every stop, every changed cell, windows from one cell to the whole file |
| `nng_server` | are ids, imports and batches atomic between clients, with panics in the middle? Does every thread get the Mutex or its poison? Is the connection of a client that left closed in the end? | three workloads: two clients with 3 frames on one index; three clients one after the other on one descriptor, which meets the second close of the first, the stolen frames of the third and the lack of descriptors; two clients with a panic that aborts |
| `http_server` | is the callback's context alive, are answers true for ever, do requests end, does a queued stop end the run at the next event? | 2 clients, 2 requests, 2 runs, 1 stop: connections left over from the first run, a stop before the run, in its callbacks, asleep; one request inserts while the other batch panics |

The three runs that are expected to find a violation are listed under [Findings](#findings). Every
property of a passing run has a mutant: an operator called a variant in the modules, put in place of
a definition, that the run must reject.

An invariant that ends in `Inv` is the conjunction of a component's type invariant and of the named
parts that tie its variables together: `DiskInv` (in `DatabaseInv`), `CacheInv`, `PoolInv`,
`IndexInv`.

Symmetry is used in `cli_processes` alone, which has no liveness and where nothing tells the two
processes apart. Deadlock checking is off because the instances stop when their calls, frames or
reads are used up; that the locks never block everyone is a property of its own (`NoDeadlock`,
`LockIsPassedOn`, `CallsReturn`).

## Fairness

`FairSpec` of each module is weak fairness of each thread's steps: the operating system schedules
every thread that can run. Which waiter gets a lock is left open; that no thread starves follows
from the bounded number of calls, and is claimed for no more than that. Faults, panics, deaths,
clients that send or leave, and spurious wake-ups have no fairness. In the NNG server, accept is the
main thread's step. In `HttpServer` the loop is one thread, and the clock is fair too: a connection
that stays idle meets its timeout (`HTTP_TIMEOUT_SECS`), which is what ends a run whose stop came
while the loop slept. Nothing makes anybody call run, stop or drop. `CliProcesses` states no
liveness: nobody has to end a command.

## Proofs

TLAPS proves what follows for every value of the constants: any number of threads, clients, vectors,
chunks, faults and deaths.

| Theorem | Statement |
|---|---|
| `DatabaseProofs!InvHolds` | `Spec => []DiskInv` |
| `DatabaseProofs!TypeCorrect` | `Spec => []TypeOK` |
| `DatabaseProofs!AlwaysRecoverable` | `Spec => []Recoverable`: wherever the process dies or an operation fails, manifest.json is whole and names a whole file with the last committed snapshot |
| `DatabaseProofs!NeverDeadlocked` | `Spec => []NoDeadlock`: the opposite lock orders of `save_and_bump` and `stats` never block all threads |
| `DatabaseProofs!AckInvHolds` | `Spec => []AckInv` |
| `DatabaseProofs!AlwaysDurable` | `Spec => []AckedDurable`: an insert answered Ok is in the snapshot on disk, at its ids |
| `DatabaseProofs!BatchesAreWhole` | `Spec => []PartialBatchHidden`: the head of a batch is read and saved by nobody |
| `DatabaseProofs!AcksAreOrdered` | `Spec => AcksInIdOrder` |
| `DatabaseProofs!CommittedFilesStay` | `Spec => CommittedFilesKept` |
| `DatabaseProofs!ViewsNeverChange` | `Spec => []ViewsStable` |
| `DatabaseProofs!ImplementsStore` | `Spec => StoreSpec`: threads, locks, files and failures implement `VersionedStore` |
| `ChunkCacheProofs!ReadsAreExact` | `Spec => []ReadsExact`, for any file, chunk size and budget |
| `ChunkCacheProofs!CacheAgrees` | `Spec => []CacheInv`: queue, byte count and the queries' Arcs agree with the cache under every interleaving |
| `ChunkCacheProofs!BudgetIsBounded` | `Spec => []BudgetBound`: over its budget the cache holds no more chunks than there are queries |
| `IvfSearchProofs!IndexAgrees` | `Spec => []IndexInv`: arrays, partitions, statistics and codes of the index agree |
| `IvfSearchProofs!PushdownIsSound` | `Spec => []PushdownSound`, for filters of any shape and depth |
| `IvfSearchProofs!ExhaustiveSearchIsExact` | `Spec => []ExhaustiveIsExact`, for any estimate, refine_k, k and filter |
| `IvfSearchProofs!ProbesAreNotWasted` | `Spec => []ProbeNotWasted` |
| `IvfSearchProofs!VectorsFindThemselves` | `Spec => []SelfFound` |
| `IvfSearchProofs!ReloadIsUnseen` | `Spec => ReloadKeepsAnswers` |
| `IvfSearchProofs!ParserImplementsGrammar` | `ParseSpec => []ParsesGrammar`, for filters of any length and nesting |
| `IndexFileProofs!TornFilesAreErrors` | `Spec => []TornIsError`, for any index, checksum length and windows |
| `IndexFileProofs!SavedFilesLoad` | `Spec => []SavedIsLoaded`: by all three loaders |
| `IndexFileProofs!CorruptFilesAreRefused` | `Spec => []CorruptIsRefused` |
| `ThreadPoolProofs!CountIsExact`, `WaitIsRight`, `JoinIsRight` | `Spec => []PoolInv`, `Spec => WaitMeansDone`, `Spec => []JoinMeansDone` |
| `NngServerProofs!InsertIdsAreRight`, `ImportsStayWhole`, `BatchesSeeOneState` | `Spec => []InsertIdsHold`, `[]ImportsAreWhole`, `[]BatchSeesOneState` |
| `NngServerProofs!FormatsAreDistinct`, `ExtendedWorks` | `PayloadSpec => []NeverMistaken`, `[]ExtendedIsAccepted`, for words of any width and any bytes in the queries |
| `HttpServerProofs!ContextIsAlive`, `AnswersAreTrue` | `Spec => []ContextAlive`, `[]AnswersHold` |
| `CliProcessesProofs!SearchesSeeAcked`, `OpensFailRightly` | `Spec => []SearchSeesAcked` and `Spec => []OpenFailsOnlyWhen`, for any number of processes that write, search and die at the same time |

### Database

`Recoverable` alone is not inductive: a rename keeps it only if the file it commits is whole, and
that was written several steps, and several lock operations of other threads, earlier. `DiskInv`
adds what is missing:

- `LockInv`: a thread's label tells which locks it holds, so at most one thread is in the part of an
  operation that writes, and no compaction runs beside a save;
- `ProcInv`, `CreateInv`: in which phase of its life the process has what in memory and on disk;
- `VersionInv`: the manifest in memory is one behind the disk between the rename and the bump, and
  level with it at all other times;
- `SaveInv`: from the end of writing `index-<v>.vdb` until the rename, the file holds the index; and
  `manifest.json.tmp` names it when it is renamed.

The step proof first shows `TypeOK` and `LockInv` by action, then that steps without a file
operation keep the rest (`QuietKeeps`), and then treats the one writer there is (`WriterAlone`,
`SaveStep`) and the process (`ProcessStep`). `NeverDeadlocked` follows from `LockInv`: a thread that
waits for the manifest holds `index.read()` only in stats, and then no writer can hold the manifest
and wait for a reader behind a waiting writer, because `write_lock` admits one writer.

`AckedDurable` is about a snapshot that was taken long after the ids were given out, and about
failed saves whose vectors stay in the index. `AckInv` says where they are in between:

- `CallInv`: a label tells how much of its batch a thread has added;
- `PlaceInv`: that part lies in the index at the ids its caller will be told, is newer than the last
  snapshot until the rename, and newer than all that was acknowledged;
- `PrefixInv`: the index in memory only runs ahead of the last snapshot, so a commit never takes
  anything away, and a restart takes away only what nobody was told;
- `PoisonInv`: a thread that panicked in the middle of its batch has left `write_lock` and the
  RwLock poisoned, so nobody searches or saves that head: this is what `PartialBatchHidden` comes
  from.

`ViewInv` adds that a file of a committed version that is still there holds its snapshot, for which
`CommittedFilesKept` is the step. The refinement maps `history` to itself and `live` to the index in
memory (or the last snapshot when there is none): the rename of create is `Create`, `add` is `Add`,
the rename of a save is `Commit`, the bump that answers is `Acknowledge`, a death is `Restart`, and
everything else stutters. `Acknowledge` may name only what the current snapshot holds, which is
`PlaceInv` at the label "bump".

### ThreadPool

The count is compared with a number that nobody computes: the callers between counting and sending,
the tasks in the channel, the workers with a task, and the tasks lost to a panic. Each step moves
one member from one finite set to another (`Enter`, `Leave`), so that their cardinalities keep
adding up. A count of 0 then leaves the channel empty and every worker without a task
(`ZeroMeansIdle`), and `TaskInv` says that a task that was sent is in the channel, with a worker, or
done. `EndInv` is for join: a worker ends only when the channel is closed and empty, and join waits
for the workers in order.

### ChunkCache

`ReadsExact` compares a whole read with the file. `ReadInv` says that what was copied so far is the
beginning of the read, and that the rest lies in the file; `Division` and `TurnFits` do the
arithmetic of one turn of the copy: what it takes begins where the last one ended, and ends inside
its chunk and inside the request, at the edge of a chunk and in the short last one. The cache plays
no part in it: whatever is evicted, a read has the Arc of the chunk it copies from.

`CacheInv` and `BudgetBound` are about the cache. The code adds a length to current_bytes when a
chunk goes in and takes one off when a chunk goes out, and it touches the queue several lock
operations after it found the chunk. `CacheIInv` has:

- `LruMatchesCache`: the queue lists what is cached, each chunk once. Sequence lemmas say what
  moving an entry to the front (`Moved`), taking the last one (`Popped`) and putting one in front
  (`Pushed`) do;
- `Counted`: current_bytes is the `Size` of what is cached, a closed form: all chunks but the last
  one of the file have the chunk size. `SumIsSize` ties it to the sum in the model, whose recursive
  definition it unfolds at a least counterexample;
- `LockInv`, `EvictInv`: the query in the eviction loop has both locks, so nobody begins to use a
  chunk meanwhile and fewer chunks are in use than there are queries; unless it has made room for
  its own chunk, all it passed over is in use;
- `Bounded`: `BudgetBound` as a statement about a number of chunks. A loop that ends over budget
  has passed over the whole queue, so that all of it is in use, or an eviction has made up for the
  new chunk.

### IvfIndex and IvfSearch

`IndexInv` is nearly inductive. `IvfIInv` adds three things: `ShapeInv` (there is a centroid, and
there are at most as many as partitions), `PlacedNearest` (a vector is in the partition that
`nearest_partition` names, the first of several, which is what `SelfFound` needs) and `StatsCover`
(the statistics of a partition cover each of its payloads: every number lies in its range, and every
string is in its set or the set is full).

The statistics are defined by recursion over the ids of a partition. `TrailExists` and
`TrailsAgree` show that such a definition has values, by extending them one by one from a least
counterexample, and that equal inputs give equal values; `StatsOfMore` is the step of the recursion,
and with it the incremental update of an insert equals the recomputation of a load. `PlacedAtIs`
does the same for the loop of build.

A filter is a tree of any height. `TruthExists` shows that a recursive definition over trees has a
solution, as the largest set of trees that justifies itself; `EvalIs`, `MatchIs` and `DescribesIs`
are the equations that follow. `AtomPushed` then goes through the comparisons: a payload that passes
one, and statistics that cover it, satisfy `MatchAtom`; `FilterPushed` carries that up the tree by
the height of a least counterexample.

For the searches it remains to count: `SearchAll` shows that with nprobe 0 the only choice of
partitions is all that are left, that the scan then has every match (`MatchesAreEligible`), and that
nothing is cut before the final sort; `OneProbe` and `Taken` do the same for one probe. A reload
makes the derived arrays what they were (`ReloadSame`), so it changes no answer.

### SqlParse

Neither side of `ParsesGrammar` can be unfolded before its recursive function is known to have a
value. `ComparesExists` extends `parse_comparison` from the last position to the first, which works
because no parser looks before its own position and each that succeeds moves on (`MovesOn`,
`LoopAgrees`, `OperandAgrees`); `GrowsExists` extends the grammar from the short ranges to the long
ones.

Then the two directions. *What is parsed is in the grammar* (`ParsedIsInGrammar`): by position from
the last, each parser that succeeds has read a balanced range, its tree is the grammar's tree of the
range (`Says`), and no operator that binds less is outside of parentheses in it, so the operator a
loop joins at is the last one and the grammar splits there as well (`NodesSay`). *What is in the
grammar is parsed* (`GrammarIsParsed`): by the length of a range with a tree, `parse_comparison`
reads it when it has no operator outside of parentheses, the loop of `parse_and` reaches its end
when it has no OR, and the loop of `parse_or` when no AND follows (`Complete`); a loop that has
reached a token that is not its operator stays there (`LoopStops`), and nothing follows the last
token. The first alone would let the parser refuse everything, the second alone would let it accept
too much. Both rest on the arithmetic of `Depth` (`DepthAdds`, `JoinIsBalanced`, `WrapIsBalanced`).

### IndexFile

`FileInv` says of each stage what the file holds. `LaidIn` is its core: each region that is written
lies, whole, where its offset says, and the manifest behind all others, with the place of the
checksum in it. `WritingInv` has it for the regions so far, behind a blank header; `TornInv` adds
that from the last region to the checksum the place of the checksum is blank; `DoneInv` that it then
holds the checksum of the file, and once a cell has gone bad a different one. `SoundInv` says that a
cell is none of those a bad one may turn into.

- The regions are sequences of any length joined to one file, so the offset of a partition's entry
  is a sum. `Flattens` gives FlattenSeq in closed form: cell j of sequence i lies j behind the
  lengths before it. The library only says that each join continues the last (`JoinedGrows`).
- `LoadersAnswer`: for a file with its header and regions laid, no bound of the three loaders fails
  and `IndexIn` is the index that was saved (`FoundIndex`), so the checksum alone decides.
- `StreamedIsCovered`: the windows of the streaming check, whatever their size, cover the cells the
  other loaders cover, also when the checksum lies in two of them.
- `ChangesShow`: a changed cell is either one of the checksum's or one that the checksum covers, and
  never both, so exactly one side of the comparison changes.

`CorruptIsRefused` says nothing of the header, which no checksum covers.

### NngServer

`MutexInv`: who works holds the Mutex, and if it is free and not poisoned then the length of the
index is one that a request left. `Works` says what a thread has found so far, `Answers` and
`Replied` that this stays true while other threads add. An id is told once (`IdInv`): a thread's
place lies at the end of the index when it gets it, behind all places told before. Since a
descriptor may stand for another connection by the time of the answer, the invariant speaks of
replies wherever they arrive; hence the theorems hold although clients may receive each other's
answers.

### HttpServer

`ContextIsAlive`: from run's start to its return, the callback's box is one that is allocated
(`ContextInv`), since each run sets the callback to its own box before it dispatches and frees no
other. For `AnswersAreTrue`, `AnswerInv` holds the answers that wait in an output buffer to the same
truths as those received, and each truth, once true of an index, stays true of every longer one
(`StillHolds`). A panic leaves a part of a batch in the index; `FittingType` says that the part is
well defined (there is a first vector that does not fit, by the well-foundedness of the naturals).

### CliProcesses

Since any number of processes may write, nothing holds of the files in general, and the invariant
`CliInv` says what holds in spite of the others:

- `SoleInv`: a writer that no other has overlapped is the only one, and finds its file and
  `manifest.json.tmp` as it left them. This is what makes an insert a promise: when it commits,
  everything in the file is what it loaded and added. `SoleStep` shows it by `Bystander`, what the
  steps of a process leave alone in another, and `Joining`, which says that who becomes a writer
  beside another crosses both.
- `PromiseInv`: whatever version a manifest file names, or a writer has read or is about to name,
  its file keeps all promises, if it is there and whole (`Names`, `Holds`). Here crossed writers
  count too: they overlapped no promised insert, so they loaded all that is promised, and whichever
  of them commits last loses nothing of it. `Promised` counts an insert from its rename on
  (`Pending`), before its id is printed. `FilesKept` and `StaysKept` carry it over the saves and
  removals of others, `PromisesShrink` over a create and over two that fill one file, which end all
  promises.
- `SearchInv`: a search that nothing has surprised finds what it is owed in the version it read, and
  then in memory (`Sees`); saves of others go to other files, or surprise it.
- `OrderInv`: while no writers have overlapped, the versions up to the manifest's are committed and
  what is left of their files is whole (`CommitInv`), a writer has the last commit and then its
  successor (`Extends`), and a search has one of them (`Follows`). A compaction may remove the
  version it read, which is why `OpenFailsOnlyWhen` allows that.

What two writers do to each other outside of a promise is not claimed: see [Findings](#findings).

### NngPayload

Both formats' lengths are a header plus a multiple of 4, the headers differ by 5, and a wrap-around
takes away a multiple of 4 (`LengthsDiffer`).

The proofs assume what the modules state as ASSUME: thread and vector sets are any sets with the
reserved values outside (finite ones for the cache, the pool and the NNG server, which count),
`Usize` is a multiple of 4 above every length, an NNG insert has one vector, and an index that is
saved has as many centroids as partitions, with ids of its own vectors in them (`IndexesAssumption`:
a build from fewer vectors than partitions is left out, since its load panics, see
[Findings](#findings)). All of it is checked by TLC on the instances.

What a recursive definition yields is proved where it can be done without an induction principle
over operators: by a closed form, by extending a solution step by step, or from a least
counterexample, as described above.

Only model-checked: liveness and everything under fairness (`CallsReturn`, `ReadsEnd`,
`CallersReturn`, `LockIsPassedOn`, `LeftIsClosed`, `LoopServes`), which the prover has no rule for.

## Findings

Three disagreements have a run that must be violated, with the sentence of the repository that it
contradicts in `PROJECT.json`:

| Run | The code | The document |
|---|---|---|
| `chunk_budget` | the eviction loop counts its turns against a queue it shortens, and leaves idle chunks over the budget | the budget is passed only while every chunk is in use (`mmap_index.rs:212`) |
| `cli_overlap` | a compact removes the index file of another command's insert, before or after `manifest.json` names it: the directory no longer opens | a compact keeps the version the manifest names (`vdb.rs:164`, `vdb.rs:168`) |
| `pushdown_saturated` | a full string set is taken for complete, and a partition with a match is skipped by IN with that string | pushdown is safe (`sql.rs:9`) |

The others that showed while modelling have no run. Where a property would contradict them it says
so with a condition (`Described`, "unless a task panics", "or its thread panicked", `crossed`,
`orderly`, `upset`):

- `sql.rs:180`: IN with a number skips a partition with a match when the field holds strings there
  too, for the string set alone is asked. `Described` in `IvfSearch` excludes such fields.
- `thread_pool.rs:74`: a task that panics takes its decrement along, and wait sleeps for ever with
  nothing left to run, where `thread_pool.rs:83` says that wait ends with the tasks. `PoolInv`
  counts the lost tasks.
- `index_ivf_rq.rs:830`: after an insert and before rebuild_sq8, `sq8_distance` of the new id
  indexes past the codes of its partition, where `index_ivf_rq.rs:822` says that it answers None.
- `index_ivf_rq.rs:921`: an index built from fewer vectors than partitions (at least 4) has fewer
  centroids than partitions, where `index_ivf_rq.rs:918` says `num_partitions x dim`; searches and
  loaders index past them. `Routable` and `Reload` say which.
- `search.rs:177`: with refine_k below k, a search of some partitions answers with refine_k vectors
  although it scanned k; the search of the mapped file refines 10 * k instead.
- `storage.rs:525`: `load_index` uses counts of a file before it checks the checksum, and panics on
  some changed cells where the test at `storage.rs:793` wants an error. `CorruptIsRefused` asks only
  that the file is not taken for an index.
- `nng_server.rs:505`: a vector of another dimension panics under the Mutex: no answer, no end of
  the connection, and the index is poisoned for all, where `README.md:273` has the code 0xFF.
  `LeftIsClosed` excludes such threads.
- `nng_server.rs:160`: a descriptor is closed twice, and the second close cuts off the client that
  was accepted on the number in between. `NngServer` has both calls, so all its properties hold in
  spite of it.
- `nng_server.rs:432`: in an old batch, the parser multiplies bytes of the first query by others
  before it compares lengths; a build with overflow checks panics on ordinary vectors, where
  `TODOS.md:129` says that the old format works. `NeverMistaken` allows the panic.
- `nng_server.rs:487`: the answer to a batch has no number of queries in front, which the end-to-end
  test, with a server of its own, reads (`tests/e2e.rs:394`).

- `http_server.rs:251`: the comments at `http_server.rs:250` and `:267` say that loopexit may be
  called from another thread and wakes the loop. libevent does so only after
  `evthread_use_pthreads`, which nothing calls: a stop does not wake a loop that sleeps. It takes
  effect at the next request or timeout of an open connection, and never if there is none; a stop
  while the callbacks run races with the loop for its queue. `StopsWhenWoken` speaks of stops that
  were queued, with a connection open.
- `http_server.rs:230`: a second `run` at the same time on a shared server would free its own box
  under the first. The comment at `http_server.rs:265` rules it out, the types (`&self`, `Sync`) do
  not; the model has one thread that calls run.
- `http_server.rs:286`: a request with a vector of another dimension panics in an `extern "C"`
  callback and aborts the process, with the index, which is nowhere saved. `AnswersHold` says that
  no other answer was false.
- `vdb.rs:40`: two inserts at once number the same version from the same manifest: the second
  overwrites the file of the first, which was answered, where `vdb.rs:87` has one write transaction
  at a time (per Database); they share `manifest.json.tmp`, so that the rename of one may commit the
  manifest of the other or fail; and since `save_index` computes the checksum by reading the file
  back (`storage.rs:445`), a mixture of two may carry a valid one. All of this is in `CliProcesses`:
  such inserts are not promised, and what was promised before them survives them, unless
  one of them truncates a file that the other loads or fills.
- `vdb.rs:61`: create on a directory that has a database truncates the file of version 0 and then
  commits an empty version 0: a death in between leaves a database that stays at its old version,
  unless that was 0, and then it does not open. The later files stay until a save overwrites them.

## What is not modelled

- Power failure: nothing is synced to disk, and the models keep what a dead process had written.
- What two commands that fill one index file leave in it is a choice between cut off, whole, and a
  mixture without vectors. A view of a `Database` while another process writes.
- The numbers: floating point, RaBitQ estimates, the quality of k-means, SIMD. Searches without
  refinement, or with SQ8 refinement, answer in the estimate's order, about which the models say
  nothing.
- NaN: `partial_cmp().unwrap()` panics on it; what a panic does under a lock is in `Database` and
  `NngServer`.
- A search with a filter that does not parse, which `search.rs:74` runs without the filter: the
  searches are modelled with filters that parse.
- The tokenizer of `sql.rs`, JSON, command lines, start-up of sockets, the std::net fallback for
  Windows.
- Reciprocal rank fusion (`hybrid.rs`), SIMD kernels, recommendations of `tune` and `sys_info.rs`,
  benchmarks: functions without state. Full text and GPU are stubs that answer that they are not
  available.
- Changed cells in the header of an index file: the checksum does not cover it, as `storage.rs:442`
  says.
- The offsets of `ChunkCache` are small; the overflow of `offset + len` is left out, as is the
  memory budget of `map_file`.
- A recv that is blocked when another thread closes its descriptor: in `NngServer` it fails at once.

## Plan

Done: Database with its abstract specification, its proofs and the proof of the refinement;
ChunkCache, ThreadPool, NngServer, NngPayload, HttpServer, CliProcesses, IvfIndex, SqlAtoms,
SqlFilter, IvfSearch, SqlParse and IndexFile, with proofs.

Left, modules:

1. `HybridFusion`: reciprocal rank fusion against its formula, over ranks as fractions.
2. The tokenizer in front of `SqlParse`, with character classes for characters.
3. A power failure for `Database` and `IndexFile`: a disk that keeps renames and loses unsynced
   data.

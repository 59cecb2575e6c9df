------------------------------ MODULE ChunkCache ------------------------------
(***************************************************************************)
(* ChunkedMmapStorage of src/src/mmap_index.rs: the index file is mapped a *)
(* chunk at a time, the mapped chunks are cached under a byte budget and   *)
(* given up least recently used first, and several queries read through    *)
(* the cache at once.                                                      *)
(*                                                                         *)
(* A thread inside read is at one of these labels, and the Arc it holds on *)
(* a chunk is what its label says: "get", "map", "install" and "evict" hold *)
(* none of the cache's, "touch" and "copy" hold the chunk they return.     *)
(* chunks.lock() is held for all of "get" and lru.lock() for all of        *)
(* "touch", so each is one step.  From "install" on, a thread holds the    *)
(* chunks, lru and current_bytes locks, taken in this order, until its     *)
(* chunk is in; an Arc is dropped without a lock, also while it does.      *)
(***************************************************************************)
EXTENDS Integers, SequencesExt, FiniteSetsExt

CONSTANTS
  Threads,      \* queries that read at the same time
  NoThread,     \* the owner of the locks when they are free
  FileLen,      \* file_len, in bytes
  ChunkSize,    \* chunk_size
  MaxTotal,     \* max_total_bytes
  Requests,     \* the <<offset, len>> pairs that are read
  MaxReads,     \* bound: reads over a behaviour
  MaxFaults     \* bound: mmap calls that fail

ASSUME ThreadsAssumption == IsFiniteSet(Threads) /\ NoThread \notin Threads
ASSUME SizesAssumption ==
  /\ FileLen \in Nat \ {0} /\ ChunkSize \in Nat \ {0}
  /\ MaxTotal \in Nat /\ MaxTotal >= ChunkSize      \* `.max(CHUNK_SIZE)`
  /\ Requests \subseteq Nat \X Nat
  /\ MaxReads \in Nat /\ MaxFaults \in Nat

VARIABLES
  cached,       \* the keys of `chunks`
  lru,          \* the LRU queue, most recently used first
  current,      \* current_bytes
  locks,        \* the thread that holds the three locks, or NoThread
  examined,     \* the eviction loop's count
  inUse,        \* the chunks that loop found in use (not in the code)
  pc,
  req,          \* the <<offset, len>> each thread is reading
  out,          \* what each thread copied out: positions of the file
  reads, faults \* how much of each bound is used

cache == <<cached, lru, current>>
vars == <<cache, locks, examined, inUse, pc, req, out, reads, faults>>

Labels == {"idle", "get", "touch", "map", "install", "evict", "copy", "failed", "panicked"}

Chunks == 0..((FileLen - 1) \div ChunkSize)

ChunkEnd(c) == IF (c + 1) * ChunkSize <= FileLen THEN (c + 1) * ChunkSize ELSE FileLen
ChunkLen(c) == ChunkEnd(c) - c * ChunkSize

(* Where a read has got to: `written` bytes are copied, so the next byte   *)
(* is in chunk chunk_idx at in_chunk_off, and to_read of them come from it.*)
Pos(t) == req[t][1] + Len(out[t])
ChunkOf(t) == Pos(t) \div ChunkSize
InChunkOff(t) == Pos(t) - ChunkOf(t) * ChunkSize

(* Variant: the last byte of a chunk is left for the next turn, *)
ToReadShort(t) == LET left == req[t][2] - Len(out[t])
                      rest == ChunkSize - 1 - InChunkOff(t)
                  IN  IF rest <= left THEN rest ELSE left

(* and one that does not stop at the end of the chunk. *)
ToReadPast(t) == req[t][2] - Len(out[t])

ToRead(t) == LET left == req[t][2] - Len(out[t])
                 rest == ChunkSize - InChunkOff(t)
             IN  IF rest <= left THEN rest ELSE left

Holders(c) == {t \in Threads : pc[t] \in {"touch", "copy"} /\ ChunkOf(t) = c}

Goto(t, label) == pc' = [pc EXCEPT ![t] = label]

-----------------------------------------------------------------------------
(* read: a range past the end of the file is refused, an empty one is done *)
(* at once.                                                                *)
Read(t) ==
  /\ pc[t] = "idle" /\ reads < MaxReads
  /\ \E r \in Requests :
        /\ req' = [req EXCEPT ![t] = r]
        /\ Goto(t, IF r[1] + r[2] > FileLen THEN "failed"
                   ELSE IF r[2] = 0 THEN "idle" ELSE "get")
  /\ out' = [out EXCEPT ![t] = <<>>]
  /\ reads' = reads + 1
  /\ UNCHANGED <<cache, locks, examined, inUse, faults>>

(* get_chunk, the hot path: clone the cached Arc under chunks.lock(). *)
Get(t) ==
  /\ pc[t] = "get" /\ locks = NoThread
  /\ Goto(t, IF ChunkOf(t) \in cached THEN "touch" ELSE "map")
  /\ UNCHANGED <<cache, locks, examined, inUse, req, out, reads, faults>>

(* touch: move the chunk to the front of the LRU queue, if it is there. *)
Touch(t) ==
  /\ pc[t] = "touch" /\ locks = NoThread
  /\ \/ \E i \in DOMAIN lru :
           lru[i] = ChunkOf(t) /\ lru' = <<ChunkOf(t)>> \o RemoveAt(lru, i)
     \/ ~Contains(lru, ChunkOf(t)) /\ UNCHANGED lru
  /\ Goto(t, "copy")
  /\ UNCHANGED <<cached, current, locks, examined, inUse, req, out, reads, faults>>

(* get_chunk, the miss: map the chunk while holding no lock. *)
Map(t) ==
  /\ pc[t] = "map"
  /\ \/ Goto(t, "install") /\ UNCHANGED faults
     \/ faults < MaxFaults /\ Goto(t, "failed") /\ faults' = faults + 1
  /\ UNCHANGED <<cache, locks, examined, inUse, req, out, reads>>

(* Variant: no second look. *)
InstallUnchecked(t) ==
  /\ pc[t] = "install" /\ locks = NoThread
  /\ Goto(t, "evict") /\ locks' = t /\ examined' = 0 /\ inUse' = {}
  /\ UNCHANGED <<cache, req, out, reads, faults>>

(* The second look: another thread may have cached the chunk meanwhile.    *)
Install(t) ==
  /\ pc[t] = "install" /\ locks = NoThread
  /\ IF ChunkOf(t) \in cached
     THEN Goto(t, "copy") /\ UNCHANGED <<locks, examined, inUse>>
     ELSE Goto(t, "evict") /\ locks' = t /\ examined' = 0 /\ inUse' = {}
  /\ UNCHANGED <<cache, req, out, reads, faults>>

(* Variant: the loop is never entered. *)
EvictingNever(t) == FALSE

(* While the budget has no room for the new chunk. *)
Evicting(t) ==
  current + ChunkLen(ChunkOf(t)) > MaxTotal /\ examined < Len(lru)

(* One turn of the loop: an idle chunk goes, a held one moves to the front. *)
Evict(t) ==
  LET victim == Last(lru) IN
  /\ pc[t] = "evict" /\ Evicting(t)
  /\ examined' = examined + 1
  /\ IF victim \in cached /\ Holders(victim) = {}
     THEN /\ cached' = cached \ {victim}
          /\ current' = current - ChunkLen(victim)
          /\ lru' = Front(lru)
          /\ UNCHANGED inUse
     ELSE /\ lru' = (IF victim \in cached THEN <<victim>> ELSE <<>>) \o Front(lru)
          /\ inUse' = inUse \cup {victim}
          /\ UNCHANGED <<cached, current>>
  /\ UNCHANGED <<locks, pc, req, out, reads, faults>>

(* This thread's mapping becomes the cached one. *)
Insert(t) ==
  /\ pc[t] = "evict" /\ ~Evicting(t)
  /\ cached' = cached \cup {ChunkOf(t)}
  /\ current' = current + ChunkLen(ChunkOf(t))
  /\ lru' = <<ChunkOf(t)>> \o lru
  /\ locks' = NoThread
  /\ Goto(t, "copy")
  /\ UNCHANGED <<examined, inUse, req, out, reads, faults>>

(* Copy out of the chunk and drop its Arc; a slice past its end panics.    *)
Copy(t) ==
  LET first == InChunkOff(t)
      start == ChunkOf(t) * ChunkSize
      copied == out[t] \o [i \in 1..ToRead(t) |-> start + first + i - 1]
  IN
  /\ pc[t] = "copy"
  /\ IF first + ToRead(t) > ChunkLen(ChunkOf(t))
     THEN Goto(t, "panicked") /\ UNCHANGED out
     ELSE /\ out' = [out EXCEPT ![t] = copied]
          /\ Goto(t, IF Len(copied) < req[t][2] THEN "get" ELSE "idle")
  /\ UNCHANGED <<cache, locks, examined, inUse, req, reads, faults>>

(* A failed read has returned its error, with its buffer half filled: the  *)
(* thread may read again.                                                  *)
Fail(t) ==
  /\ pc[t] = "failed"
  /\ Goto(t, "idle")
  /\ req' = [req EXCEPT ![t] = <<0, 0>>]
  /\ out' = [out EXCEPT ![t] = <<>>]
  /\ UNCHANGED <<cache, locks, examined, inUse, reads, faults>>

-----------------------------------------------------------------------------
Init ==
  /\ cached = {} /\ lru = <<>> /\ current = 0
  /\ locks = NoThread /\ examined = 0 /\ inUse = {}
  /\ pc = [t \in Threads |-> "idle"]
  /\ req = [t \in Threads |-> <<0, 0>>]
  /\ out = [t \in Threads |-> <<>>]
  /\ reads = 0 /\ faults = 0

Step(t) ==
  \/ Get(t) \/ Touch(t) \/ Map(t) \/ Install(t) \/ Evict(t) \/ Insert(t)
  \/ Copy(t) \/ Fail(t)

Next == \E t \in Threads : Read(t) \/ Step(t)

Spec == Init /\ [][Next]_vars

(* A thread inside read keeps running. *)
FairSpec == Spec /\ \A t \in Threads : WF_vars(Step(t))

-----------------------------------------------------------------------------
(* Every variable has its type. *)
TypeOK ==
  /\ cached \subseteq Chunks /\ lru \in Seq(Chunks) /\ current \in Nat
  /\ locks \in Threads \cup {NoThread}
  /\ examined \in Nat /\ inUse \subseteq Chunks
  /\ pc \in [Threads -> Labels]
  /\ req \in [Threads -> Nat \X Nat]
  /\ out \in [Threads -> Seq(Nat)]
  /\ reads \in Nat /\ faults \in Nat

(* The LRU queue lists the cached chunks, each once: a touch that races an *)
(* eviction or a second load of the same chunk loses and repeats none, so  *)
(* every cached chunk can still be given up.                               *)
LruMatchesCache ==
  /\ IsInjective(lru)
  /\ ToSet(lru) = cached

(* What a query holds is what the cache holds, so the mapping it reads is  *)
(* neither unmapped nor mapped twice behind the budget's back, and         *)
(* current_bytes is the size of what is cached.                            *)
Accounting ==
  /\ current = MapThenSumSet(ChunkLen, cached)
  /\ \A t \in Threads : pc[t] \in {"touch", "copy"} => ChunkOf(t) \in cached

(* The cache, its queue, its byte count and the queries agree. *)
CacheInv == TypeOK /\ LruMatchesCache /\ Accounting

(* A read that ends without an error has copied exactly the bytes          *)
(* [offset, offset + len) of the file, across chunk boundaries and in the  *)
(* short last chunk, and no copy runs off its chunk.                       *)
ReadsExact ==
  \A t \in Threads :
    /\ pc[t] # "panicked"
    /\ \A i \in 1..Len(out[t]) : out[t][i] = req[t][1] + i - 1
    /\ pc[t] = "idle" /\ req[t][2] > 0 => Len(out[t]) = req[t][2]

(* The queries' working set may push the cache over its budget, but the    *)
(* excess does not build up: over budget, the cache holds no more chunks   *)
(* than there are queries.                                                 *)
BudgetBound ==
  \/ Cardinality(cached) <= Cardinality(Threads)
  \/ Cardinality(cached) * ChunkSize < MaxTotal + ChunkSize

(* Every read ends. *)
ReadsEnd == \A t \in Threads : pc[t] = "get" ~> pc[t] \in {"idle", "failed"}

(* "当所有缓存块都在使用时，预算会被暂时突破" (the budget is passed for a time *)
(* when all the cached blocks are in use): a miss that leaves the cache    *)
(* over its budget finds every cached chunk in use, then or when the loop  *)
(* looked at it.                                                           *)
OverBudgetOnlyWhenInUse ==
  [][\A t \in Threads : Insert(t) /\ current' > MaxTotal
       => \A c \in cached : c \in inUse \/ Holders(c) # {}]_vars
=============================================================================

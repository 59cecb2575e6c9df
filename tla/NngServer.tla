------------------------------ MODULE NngServer ------------------------------
(***************************************************************************)
(* vdb-nng-server of src/src/nng_server.rs, as built for Unix: one thread  *)
(* per connection, all of them on one index behind a Mutex.                *)
(*                                                                         *)
(* A frame is a record of its command and the vectors it carries. Frames   *)
(* travel as two tokens, their length and their body, because the server   *)
(* takes them with two calls of read_exact. A connection has the name of   *)
(* its client, and so has the thread accept started for it; the thread     *)
(* knows its connection by a descriptor only, which is looked up in the    *)
(* table of the process at every call.                                     *)
(*                                                                         *)
(* Left open: a recv that is already blocked when its descriptor is closed *)
(* fails at once, as the next one does.                                    *)
(***************************************************************************)
EXTENDS Integers, Sequences, SequencesExt, FiniteSets

CONSTANTS
  Clients,      \* connections; each is opened at most once
  NoClient,     \* a free descriptor, or the owner of a free Mutex
  Fds,          \* the descriptors the process may have for connections
  Vectors,      \* what clients send as vectors,
  Frames,       \* and the frames they send
  Wrong,        \* a vector of another dimension than the server's
  Builds,       \* what a panic does: unwind the thread or abort the process
  Workloads     \* bound: who may connect, with how many descriptors, how many
                \* of which frames one client and all of them send, and
                \* whether they leave

Commands == {"ping", "search", "batch", "insert", "import", "export",
             "malformed", "length"}

ASSUME ClientsAssumption == IsFiniteSet(Clients) /\ NoClient \notin Clients
ASSUME FdsAssumption == Fds \subseteq Nat /\ IsFiniteSet(Fds)
ASSUME FramesAssumption ==
  \A f \in Frames :
    /\ DOMAIN f = {"cmd", "vs"} /\ f.cmd \in Commands /\ f.vs \in Seq(Vectors)
    /\ f.cmd = "insert" => Len(f.vs) = 1
ASSUME BuildsAssumption == Builds \subseteq {"unwind", "abort"} /\ Builds # {}
ASSUME WorkloadsAssumption ==
  Workloads \subseteq [clients : SUBSET Clients, fds : SUBSET Fds, frames : SUBSET Frames,
                       builds : SUBSET Builds, each : Nat, all : Nat, leave : BOOLEAN]

VARIABLES
  peer,         \* what each client did with its connection,
  stream,       \* what of its bytes is not read yet,
  sent,         \* how many frames it sent,
  replies,      \* and what it received
  backlog,      \* connections that wait for accept
  table,        \* the descriptor table of the process
  pc, fd,       \* where each thread is, its descriptor,
  frame, left,  \* the frame it serves, the vectors of it that are left,
  found,        \* and what it answers
  holder,       \* the Mutex,
  poisoned,     \* whether a thread panicked with it,
  index,        \* and the vectors it protects
  complete,     \* the lengths of the index between two requests that add
  build, up,    \* the build, and whether the process runs
  load          \* the workload

net == <<peer, stream, sent, replies>>
thread == <<pc, fd, frame, left, found>>
shared == <<holder, poisoned, index, complete>>
world == <<build, up, load>>
vars == <<net, backlog, table, thread, shared, world>>

Goto(c, label) == pc' = [pc EXCEPT ![c] = label]

(* The connection a thread's descriptor stands for now. *)
Connection(c) == table[fd[c]]

NoFrame == [cmd |-> "ping", vs |-> <<>>]

-----------------------------------------------------------------------------
Init ==
  /\ peer = [c \in Clients |-> "new"]
  /\ stream = [c \in Clients |-> <<>>]
  /\ sent = [c \in Clients |-> 0]
  /\ replies = [c \in Clients |-> <<>>]
  /\ backlog = <<>>
  /\ table = [f \in Fds |-> NoClient]
  /\ pc = [c \in Clients |-> "none"]
  /\ fd = [c \in Clients |-> 0]
  /\ frame = [c \in Clients |-> NoFrame]
  /\ left = [c \in Clients |-> <<>>]
  /\ found = [c \in Clients |-> <<>>]
  /\ holder = NoClient /\ poisoned = FALSE
  /\ index = <<>> /\ complete = {0}
  /\ load \in Workloads
  /\ build \in load.builds /\ up = TRUE

-----------------------------------------------------------------------------
(* The clients. *)

Connect(c) ==
  /\ up /\ c \in load.clients /\ peer[c] = "new"
  /\ peer' = [peer EXCEPT ![c] = "connected"]
  /\ backlog' = Append(backlog, c)
  /\ UNCHANGED <<stream, sent, replies, table, thread, shared, world>>

Traffic == FoldFunction(+, 0, sent)

(* A frame whose length is 0 or above 16 MiB has no body to speak of. *)
Request(c, f) ==
  /\ f \in load.frames /\ peer[c] = "connected"
  /\ sent[c] < load.each /\ Traffic < load.all
  /\ stream' = [stream EXCEPT ![c] = @ \o
       (IF f.cmd = "length" THEN <<[part |-> "length", of |-> f]>>
        ELSE <<[part |-> "length", of |-> f], [part |-> "body", of |-> f]>>)]
  /\ sent' = [sent EXCEPT ![c] = @ + 1]
  /\ UNCHANGED <<peer, replies, backlog, table, thread, shared, world>>

Leave(c) ==
  /\ load.leave /\ peer[c] = "connected"
  /\ peer' = [peer EXCEPT ![c] = "left"]
  /\ UNCHANGED <<stream, sent, replies, backlog, table, thread, shared, world>>

-----------------------------------------------------------------------------
(* run_server: accept takes the lowest free descriptor and starts a        *)
(* thread. With no descriptor left it fails, and the loop tries again.     *)
Accept ==
  /\ up /\ backlog # <<>>
  /\ \E f \in load.fds :
       /\ table[f] = NoClient
       /\ \A g \in load.fds : table[g] = NoClient => f <= g
       /\ table' = [table EXCEPT ![f] = Head(backlog)]
       /\ fd' = [fd EXCEPT ![Head(backlog)] = f]
  /\ Goto(Head(backlog), "length")
  /\ backlog' = Tail(backlog)
  /\ UNCHANGED <<net, frame, left, found, shared, world>>

(* Variant: end of file is no error. *)
RecvFailsOnError(c) == Connection(c) = NoClient

(* recv fails: the descriptor is closed, or the client left and all of its *)
(* bytes are read.                                                         *)
RecvFails(c) ==
  \/ Connection(c) = NoClient
  \/ /\ Connection(c) # NoClient
     /\ stream[Connection(c)] = <<>> /\ peer[Connection(c)] = "left"

(* handle_posix_connection leaves its loop when a read fails, and closes   *)
(* the descriptor.                                                         *)
ReadFails(c) ==
  /\ up /\ pc[c] \in {"length", "body"} /\ RecvFails(c)
  /\ Goto(c, "close")
  /\ UNCHANGED <<net, backlog, table, fd, frame, left, found, shared, world>>

(* The four bytes of the length. A thread whose descriptor was given to    *)
(* another connection may find a body there instead: its first bytes are   *)
(* then the length of a frame nobody sent, or one to refuse.               *)
ReadLength(c) ==
  /\ up /\ pc[c] = "length" /\ Connection(c) # NoClient
  /\ LET from == Connection(c) IN
     /\ stream[from] # <<>>
     /\ LET head == Head(stream[from]) IN
        IF head.part = "length"
        THEN /\ frame' = [frame EXCEPT ![c] = head.of]
             /\ stream' = [stream EXCEPT ![from] = Tail(@)]
        ELSE /\ \E f \in load.frames : frame' = [frame EXCEPT ![c] = f]
             /\ UNCHANGED stream
  /\ Goto(c, IF frame'[c].cmd = "length" THEN "refuse" ELSE "body")
  /\ UNCHANGED <<peer, sent, replies, backlog, table, fd, left, found, shared,
                 world>>

(* The body, and the command it starts with: a ping or a payload that does *)
(* not parse is answered at once, any other command asks for the index.    *)
(* What a read that is out of step makes of the bytes is left open.        *)
ReadBody(c) ==
  /\ up /\ pc[c] = "body" /\ Connection(c) # NoClient
  /\ LET from == Connection(c) IN
     /\ stream[from] # <<>>
     /\ stream' = [stream EXCEPT ![from] = Tail(@)]
     /\ IF Head(stream[from]) = [part |-> "body", of |-> frame[c]]
        THEN UNCHANGED frame
        ELSE \E f \in {g \in load.frames : g.cmd # "length"} :
               frame' = [frame EXCEPT ![c] = f]
  /\ Goto(c, IF frame'[c].cmd \in {"ping", "malformed"} THEN "reply" ELSE "lock")
  /\ found' = [found EXCEPT ![c] = <<>>]
  /\ UNCHANGED <<peer, sent, replies, backlog, table, fd, left, shared, world>>

-----------------------------------------------------------------------------
(* Variant: the Mutex is not given back by a panic. *)
PanicKeepsLock(c) ==
  /\ Goto(c, "panicked")
  /\ UNCHANGED <<net, backlog, table, fd, frame, left, found, shared, world>>

(* A panic ends the thread, past both calls of close, or the process. The  *)
(* guard of the Mutex poisons it on the way out.                           *)
Panic(c) ==
  /\ IF build = "unwind"
     THEN /\ Goto(c, "panicked")
          /\ UNCHANGED <<table, up>>
     ELSE /\ up' = FALSE
          /\ table' = [f \in Fds |-> NoClient]
          /\ UNCHANGED pc
  /\ IF holder = c
     THEN holder' = NoClient /\ poisoned' = TRUE
     ELSE UNCHANGED <<holder, poisoned>>
  /\ UNCHANGED <<net, backlog, fd, frame, left, found, index, complete, build, load>>

Enter(c) ==
  /\ holder' = c
  /\ left' = [left EXCEPT ![c] = frame[c].vs]
  /\ Goto(c, "work")
  /\ UNCHANGED <<net, backlog, table, fd, frame, found, poisoned, index, complete,
                 world>>

(* Variant: the lock is taken from a thread that panicked. *)
TakeLockAnyway(c) == holder = NoClient /\ Enter(c)

(* index.lock().unwrap() *)
TakeLock(c) == holder = NoClient /\ ~poisoned /\ Enter(c)

Lock(c) ==
  /\ up /\ pc[c] = "lock"
  /\ \/ TakeLock(c)
     \/ holder = NoClient /\ poisoned /\ Panic(c)

(* handle_insert, handle_import_json: one vector at a time. Only an insert *)
(* answers with the id; add refuses another dimension by a panic.          *)
Add(c) ==
  /\ up /\ pc[c] = "work" /\ frame[c].cmd \in {"insert", "import"} /\ left[c] # <<>>
  /\ IF Head(left[c]) = Wrong
     THEN Panic(c)
     ELSE /\ index' = Append(index, Head(left[c]))
          /\ left' = [left EXCEPT ![c] = Tail(@)]
          /\ found' = IF frame[c].cmd = "insert"
                      THEN [found EXCEPT ![c] = <<Len(index)>>] ELSE found
          /\ UNCHANGED <<net, backlog, table, pc, fd, frame, holder, poisoned,
                         complete, world>>

(* handle_search, handle_batch_search: each query is answered from the     *)
(* index as it is then, here its length; search refuses another dimension  *)
(* by a panic, before it looks at anything.                                *)
Query(c) ==
  /\ up /\ pc[c] = "work" /\ frame[c].cmd \in {"search", "batch"} /\ left[c] # <<>>
  /\ IF Head(left[c]) = Wrong
     THEN Panic(c)
     ELSE /\ found' = [found EXCEPT ![c] = Append(@, Len(index))]
          /\ left' = [left EXCEPT ![c] = Tail(@)]
          /\ UNCHANGED <<net, backlog, table, pc, fd, frame, shared, world>>

(* handle_export_json *)
Export(c) ==
  /\ up /\ pc[c] = "work" /\ frame[c].cmd = "export" /\ found[c] = <<>>
  /\ found' = [found EXCEPT ![c] = <<Len(index)>>]
  /\ UNCHANGED <<net, backlog, table, pc, fd, frame, left, shared, world>>

Adding(c) == frame[c].cmd \in {"insert", "import"}

WorkDone(c) ==
  /\ pc[c] = "work" /\ left[c] = <<>>
  /\ frame[c].cmd = "export" => found[c] # <<>>

(* Variant: the guard is dropped between two vectors. *)
ReleaseBetween(c) ==
  /\ up /\ pc[c] = "work" /\ holder = c
  /\ frame[c].cmd = "export" => found[c] # <<>>
  /\ holder' = NoClient
  /\ complete' = IF Adding(c) /\ left[c] = <<>>
                 THEN complete \cup {Len(index)} ELSE complete
  /\ Goto(c, IF left[c] = <<>> THEN "reply" ELSE "work")
  /\ UNCHANGED <<net, backlog, table, fd, frame, left, found, poisoned, index,
                 world>>

(* Variant: an insert looks up its id when it answers. *)
ReleaseThenId(c) ==
  /\ up
  /\ \/ /\ WorkDone(c) /\ holder = c
        /\ holder' = NoClient
        /\ complete' = IF Adding(c) THEN complete \cup {Len(index)} ELSE complete
        /\ UNCHANGED <<pc, found>>
     \/ /\ WorkDone(c) /\ holder # c
        /\ found' = IF frame[c].cmd = "insert"
                    THEN [found EXCEPT ![c] = <<Len(index) - 1>>] ELSE found
        /\ Goto(c, "reply")
        /\ UNCHANGED <<holder, complete>>
  /\ UNCHANGED <<net, backlog, table, fd, frame, left, poisoned, index, world>>

(* The handler returns: its guard is dropped, and the answer is ready.     *)
Release(c) ==
  /\ up /\ WorkDone(c)
  /\ holder' = NoClient
  /\ complete' = IF Adding(c) THEN complete \cup {Len(index)} ELSE complete
  /\ Goto(c, "reply")
  /\ UNCHANGED <<net, backlog, table, fd, frame, left, found, poisoned, index,
                 world>>

-----------------------------------------------------------------------------
(* write_response_posix sends to whatever the descriptor stands for. To a  *)
(* client that left it fails, or succeeds to no effect.                    *)
SendOk(c, reply) ==
  /\ Connection(c) # NoClient
  /\ \/ /\ peer[Connection(c)] = "connected"
        /\ replies' = [replies EXCEPT ![Connection(c)] = Append(@, reply)]
     \/ /\ peer[Connection(c)] = "left"
        /\ UNCHANGED replies

SendFails(c) ==
  \/ Connection(c) = NoClient
  \/ Connection(c) # NoClient /\ peer[Connection(c)] = "left"

Reply(c) ==
  /\ up /\ pc[c] = "reply"
  /\ \/ /\ SendOk(c, [of |-> frame[c], ok |-> frame[c].cmd # "malformed",
                      found |-> found[c]])
        /\ Goto(c, "length")
     \/ /\ SendFails(c)                     \* `?` skips the handler's close
        /\ Goto(c, "close again")
        /\ UNCHANGED replies
  /\ UNCHANGED <<peer, stream, sent, backlog, table, fd, frame, left, found,
                 shared, world>>

(* A length out of range is answered with an error, and ends the loop. *)
Refuse(c) ==
  /\ up /\ pc[c] = "refuse"
  /\ \/ /\ SendOk(c, [of |-> frame[c], ok |-> FALSE, found |-> <<>>])
        /\ Goto(c, "close")
     \/ /\ SendFails(c)
        /\ Goto(c, "close again")
        /\ UNCHANGED replies
  /\ UNCHANGED <<peer, stream, sent, backlog, table, fd, frame, left, found,
                 shared, world>>

(* handle_posix_connection closes the descriptor when its loop ends. *)
Close(c) ==
  /\ up /\ pc[c] = "close"
  /\ table' = [table EXCEPT ![fd[c]] = NoClient]
  /\ Goto(c, "close again")
  /\ UNCHANGED <<net, backlog, fd, frame, left, found, shared, world>>

(* So does the closure of run_server's thread, whatever the handler did. *)
CloseAgain(c) ==
  /\ up /\ pc[c] = "close again"
  /\ table' = [table EXCEPT ![fd[c]] = NoClient]
  /\ Goto(c, "gone")
  /\ UNCHANGED <<net, backlog, fd, frame, left, found, shared, world>>

-----------------------------------------------------------------------------
ThreadStep(c) ==
  \/ ReadFails(c) \/ ReadLength(c) \/ ReadBody(c)
  \/ Lock(c) \/ Add(c) \/ Query(c) \/ Export(c) \/ Release(c)
  \/ Reply(c) \/ Refuse(c) \/ Close(c) \/ CloseAgain(c)

Next ==
  \/ \E c \in Clients : Connect(c) \/ Leave(c) \/ ThreadStep(c)
                        \/ \E f \in Frames : Request(c, f)
  \/ Accept

Spec == Init /\ [][Next]_vars

(* The kernel runs the main thread and every thread it started. *)
FairSpec == Spec /\ WF_vars(Accept) /\ \A c \in Clients : WF_vars(ThreadStep(c))

-----------------------------------------------------------------------------
(* Every reply to a command of the given kind that some client received.   *)
Received(cmds) ==
  UNION {{replies[c][i] : i \in {j \in DOMAIN replies[c] :
            replies[c][j].ok /\ replies[c][j].of.cmd \in cmds}} : c \in Clients}

(* The id an insert answers with is the place of that client's vector, and *)
(* no other insert answered with it: the id is the one add returned under  *)
(* the Mutex.                                                              *)
InsertIdsHold ==
  /\ \A r \in Received({"insert"}) : index[r.found[1] + 1] = r.of.vs[1]
  /\ \A c, d \in Clients : \A i \in DOMAIN replies[c], j \in DOMAIN replies[d] :
       LET r == replies[c][i] s == replies[d][j] IN
       r.ok /\ s.ok /\ r.of.cmd = "insert" /\ s.of.cmd = "insert"
         /\ r.found = s.found => c = d /\ i = j

(* What a search or an export saw of the index ends where some request     *)
(* ended: nobody sees a part of an import, neither of one that still runs  *)
(* nor of one that panicked half-way and left its vectors behind.          *)
ImportsAreWhole ==
  \A r \in Received({"search", "batch", "export"}) :
     \A i \in DOMAIN r.found : r.found[i] \in complete

(* The queries of one batch are answered from one state of the index. *)
BatchSeesOneState ==
  \A r \in Received({"batch"}) : \A i, j \in DOMAIN r.found : r.found[i] = r.found[j]

(* A thread that asks for the Mutex gets it, or panics on its poison: the *)
(* guard is released on every way out of a handler, a panic included.      *)
LockIsPassedOn == \A c \in Clients : pc[c] = "lock" ~> (pc[c] # "lock" \/ ~up)

Closed(c) == pc[c] # "none" /\ \A f \in Fds : table[f] # c

(* When a client leaves, its connection is closed in the end, or it would  *)
(* hold a descriptor for ever: it does when its thread panicked.           *)
LeftIsClosed ==
  \A c \in Clients :
    peer[c] = "left" /\ pc[c] # "none" ~> Closed(c) \/ pc[c] = "panicked"
=============================================================================

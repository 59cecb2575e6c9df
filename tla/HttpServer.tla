------------------------------ MODULE HttpServer ------------------------------
(***************************************************************************)
(* HttpServer of src/src/http_server.rs: an index in memory that one       *)
(* thread serves over libevent's evhttp, and other threads that stop it.   *)
(*                                                                         *)
(* The loop of event_base_dispatch is modelled as far as the code depends  *)
(* on it.  It looks at its exit flag, sleeps until something is ready (not *)
(* at all when a callback already waits to run), and then runs a callback  *)
(* for each ready connection, and the one loopexit has queued.  The code   *)
(* never gives libevent a threading implementation, so a loopexit from     *)
(* another thread wakes nobody, and may be lost while the loop works on    *)
(* the same queue.                                                         *)
(*                                                                         *)
(* A request is a record of its route and of what its handler looks at:    *)
(* its vectors, and the number of payloads and k where it has them ({n}).  *)
(***************************************************************************)
EXTENDS Naturals, Sequences, FiniteSetsExt

CONSTANTS
  Clients,      \* connections; each is opened at most once
  Vectors,      \* what clients send as vectors,
  Requests,     \* and what they send
  Wrong,        \* a vector of another dimension than the index's
  DefaultK,     \* k of ServerOptions, for a search that names none,
  MAX_K,        \* and what k is cut to
  MaxRequests,  \* bound: requests of all clients,
  MaxRuns,      \* bound: calls of run,
  MaxStops      \* bound: and of stop

Routes == {"page", "options", "unknown", "malformed", "oversized", "search",
           "insert", "batch_insert", "stats"}

ASSUME RequestsAssumption ==
  \A r \in Requests :
    /\ DOMAIN r = {"route", "vs", "payloads", "k"}
    /\ r.route \in Routes /\ r.vs \in Seq(Vectors)
ASSUME LimitsAssumption == DefaultK \in Nat /\ MAX_K \in Nat \ {0}
ASSUME BoundsAssumption == MaxRequests \in Nat /\ MaxRuns \in Nat /\ MaxStops \in Nat

VARIABLES
  \* The HttpServer and its loop.
  server,       \* "new", "shared" with other threads, or "dropped"
  bound,        \* whether it listens
  pc,           \* where the thread that calls run is
  boxes,        \* the boxed Arcs of the context that run has allocated,
  gencb,        \* and the one the callback gets, 0 before the first
  exitQueued,   \* the callback of loopexit waits in the queue,
  gotterm,      \* and has run
  todo,         \* connections whose callback is still to run
  index,        \* the vectors, in id order
  up,           \* whether the process runs
  \* The connections.
  peer,         \* what the client did: "new", "connected", "left",
  conn,         \* what the server has: "none", "backlog", "open", "closed",
  inbox,        \* requests that are not read yet,
  outbox,       \* the answer that is not written yet, if any,
  expired,      \* connections idle for HTTP_TIMEOUT_SECS,
  got,          \* and the answers the client received
  \* What happened.
  complete,     \* lengths of the index between requests
  owed,         \* a stop that took effect, whose run has not returned
  sent, runs, stops

wire == <<peer, conn, inbox, outbox, expired, got>>
loop == <<boxes, gencb, exitQueued, gotterm, todo>>
data == <<index, complete, up>>
counts == <<sent, runs, stops>>
vars == <<server, bound, pc, loop, data, wire, owed, counts>>

-----------------------------------------------------------------------------
(* HttpServer::new_with_options *)
Init ==
  /\ server = "new" /\ bound = FALSE /\ pc = "off"
  /\ boxes = {} /\ gencb = 0 /\ exitQueued = FALSE /\ gotterm = FALSE /\ todo = {}
  /\ index = <<>> /\ complete = {0} /\ up = TRUE
  /\ peer = [c \in Clients |-> "new"]
  /\ conn = [c \in Clients |-> "none"]
  /\ inbox = [c \in Clients |-> <<>>]
  /\ outbox = [c \in Clients |-> <<>>]
  /\ expired = {}
  /\ got = [c \in Clients |-> <<>>]
  /\ owed = FALSE /\ sent = 0 /\ runs = 0 /\ stops = 0

(* bind takes &mut self: nobody else has the server yet. When the address  *)
(* is in use it answers Err(AddrInUse), and the server stays unbound.      *)
Bind ==
  /\ server = "new" /\ bound' = TRUE
  /\ UNCHANGED <<server, pc, loop, data, wire, owed, counts>>

Share ==
  /\ server = "new" /\ server' = "shared"
  /\ UNCHANGED <<bound, pc, loop, data, wire, owed, counts>>

(* The clients, and the clock. *)

Connect(c) ==
  /\ up /\ bound /\ server # "dropped" /\ peer[c] = "new"
  /\ peer' = [peer EXCEPT ![c] = "connected"]
  /\ conn' = [conn EXCEPT ![c] = "backlog"]
  /\ UNCHANGED <<server, bound, pc, loop, data, inbox, outbox, expired, got, owed, counts>>

Request(c, r) ==
  /\ peer[c] = "connected" /\ sent < MaxRequests
  /\ inbox' = [inbox EXCEPT ![c] = Append(@, r)]
  /\ sent' = sent + 1
  /\ UNCHANGED <<server, bound, pc, loop, data, peer, conn, outbox, expired, got,
                 owed, runs, stops>>

Leave(c) ==
  /\ peer[c] = "connected"
  /\ peer' = [peer EXCEPT ![c] = "left"]
  /\ UNCHANGED <<server, bound, pc, loop, data, conn, inbox, outbox, expired, got,
                 owed, counts>>

Expire(c) ==
  /\ conn[c] = "open" /\ outbox[c] = <<>> /\ c \notin expired
  /\ expired' = expired \cup {c}
  /\ UNCHANGED <<server, bound, pc, loop, data, peer, conn, inbox, outbox, got,
                 owed, counts>>

-----------------------------------------------------------------------------
(* stop, in any thread: event_base_loopexit queues a callback. The queue   *)
(* is the loop's while it is at "top" or in its callbacks: an insertion    *)
(* that another thread makes there without a lock may be lost.             *)

(* Variant: stop sets the flag itself, as event_base_loopbreak does. *)
StopSetsFlag ==
  /\ up /\ server = "shared" /\ stops < MaxStops
  /\ gotterm' = TRUE /\ owed' = TRUE
  /\ stops' = stops + 1
  /\ UNCHANGED <<server, bound, pc, boxes, gencb, exitQueued, todo, data, wire, sent, runs>>

Stop ==
  /\ up /\ server = "shared" /\ stops < MaxStops
  /\ exitQueued' \in {TRUE} \cup (IF pc \in {"top", "process"} THEN {exitQueued} ELSE {})
  /\ owed' = (owed \/ exitQueued')
  /\ stops' = stops + 1
  /\ UNCHANGED <<server, bound, pc, boxes, gencb, gotterm, todo, data, wire, sent, runs>>

(* run: a new box, whose address becomes the callback's argument.          *)

(* Variant: the callback is set by the first run only. *)
RunSetsOnce ==
  /\ up /\ server = "shared" /\ pc = "off" /\ runs < MaxRuns
  /\ boxes' = boxes \cup {runs + 1}
  /\ gencb' = IF gencb = 0 THEN runs + 1 ELSE gencb
  /\ runs' = runs + 1
  /\ pc' = "dispatch"
  /\ UNCHANGED <<server, bound, exitQueued, gotterm, todo, data, wire, owed, sent, stops>>

Run ==
  /\ up /\ server = "shared" /\ pc = "off" /\ runs < MaxRuns
  /\ boxes' = boxes \cup {runs + 1}
  /\ gencb' = runs + 1
  /\ runs' = runs + 1
  /\ pc' = "dispatch"
  /\ UNCHANGED <<server, bound, exitQueued, gotterm, todo, data, wire, owed, sent, stops>>

(* event_base_dispatch forgets the exits before it. *)
Dispatch ==
  /\ up /\ pc = "dispatch" /\ pc' = "top"
  /\ gotterm' = FALSE
  /\ UNCHANGED <<server, bound, boxes, gencb, exitQueued, todo, data, wire, owed, counts>>

(* What the loop may find: a client to accept, bytes to read, an answer to *)
(* write, an end of file, a timeout.                                       *)
Ready ==
  {c \in Clients :
     \/ conn[c] = "backlog"
     \/ /\ conn[c] = "open"
        /\ \/ inbox[c] # <<>> \/ outbox[c] # <<>>
           \/ peer[c] = "left" \/ c \in expired}

(* With nothing to wait for, not even a listening socket, dispatch returns *)
(* 1, of which run makes an Err.                                           *)
Top ==
  /\ up /\ pc = "top"
  /\ \/ /\ gotterm \/ (~exitQueued /\ ~bound)
        /\ pc' = "return" /\ UNCHANGED todo
     \/ /\ ~gotterm /\ ~exitQueued /\ bound
        /\ pc' = "asleep" /\ UNCHANGED todo
     \/ /\ ~gotterm /\ exitQueued
        /\ pc' = "process" /\ todo' = Ready
  /\ UNCHANGED <<server, bound, boxes, gencb, exitQueued, gotterm, data, wire, owed, counts>>

Wake ==
  /\ up /\ pc = "asleep" /\ Ready # {}
  /\ pc' = "process" /\ todo' = Ready
  /\ UNCHANGED <<server, bound, boxes, gencb, exitQueued, gotterm, data, wire, owed, counts>>

(* After dispatch, run takes the box back and drops it. *)
Return ==
  /\ up /\ pc = "return" /\ pc' = "off"
  /\ boxes' = boxes \ {runs}
  /\ owed' = FALSE
  /\ UNCHANGED <<server, bound, gencb, exitQueued, gotterm, todo, data, wire, counts>>

-----------------------------------------------------------------------------
(* The callbacks. *)

Processing == up /\ pc = "process"

Exit ==
  /\ Processing /\ exitQueued
  /\ exitQueued' = FALSE /\ gotterm' = TRUE
  /\ UNCHANGED <<server, bound, pc, boxes, gencb, todo, data, wire, owed, counts>>

AllProcessed ==
  /\ Processing /\ todo = {} /\ ~exitQueued
  /\ pc' = "top"
  /\ UNCHANGED <<server, bound, loop, data, wire, owed, counts>>

(* Connection c has its turn: it is read from and written to as it is. *)
Turn(c) == Processing /\ c \in todo /\ todo' = todo \ {c}

Accept(c) ==
  /\ Turn(c) /\ conn[c] = "backlog"
  /\ conn' = [conn EXCEPT ![c] = "open"]
  /\ UNCHANGED <<server, bound, pc, boxes, gencb, exitQueued, gotterm, data, peer, inbox,
                 outbox, expired, got, owed, counts>>

Close(c) == conn' = [conn EXCEPT ![c] = "closed"]

Write(c) ==
  /\ Turn(c) /\ conn[c] = "open" /\ outbox[c] # <<>>
  /\ outbox' = [outbox EXCEPT ![c] = <<>>]
  /\ \/ peer[c] = "connected" /\ got' = [got EXCEPT ![c] = @ \o outbox[c]] /\ UNCHANGED conn
     \/ peer[c] = "left" /\ Close(c) /\ UNCHANGED got
  /\ UNCHANGED <<server, bound, pc, boxes, gencb, exitQueued, gotterm, data, peer, inbox,
                 expired, owed, counts>>

HangUp(c) ==
  /\ Turn(c) /\ conn[c] = "open" /\ outbox[c] = <<>>
  /\ c \in expired \/ (peer[c] = "left" /\ inbox[c] = <<>>)
  /\ Close(c) /\ inbox' = [inbox EXCEPT ![c] = <<>>]
  /\ UNCHANGED <<server, bound, pc, boxes, gencb, exitQueued, gotterm, data, peer, outbox,
                 expired, got, owed, counts>>

(* A body above MAX_BODY_SIZE ends the connection before the callback. *)
Oversized(c) ==
  /\ Turn(c) /\ conn[c] = "open" /\ outbox[c] = <<>>
  /\ inbox[c] # <<>> /\ Head(inbox[c]).route = "oversized"
  /\ Close(c) /\ inbox' = [inbox EXCEPT ![c] = <<>>]
  /\ UNCHANGED <<server, bound, pc, boxes, gencb, exitQueued, gotterm, data, peer, outbox,
                 expired, got, owed, counts>>

-----------------------------------------------------------------------------
(* http_generic_callback: what a handler makes of the index and a request. *)

Answer(r, status, found) == [of |-> r, status |-> status, found |-> found]

(* The vectors a handler can add: those before one of another dimension,   *)
(* whose assert_eq! in add panics.                                         *)
Fitting(vs) ==
  SubSeq(vs, 1, CHOOSE n \in 0..Len(vs) :
                  /\ \A i \in 1..n : vs[i] # Wrong
                  /\ n < Len(vs) => vs[n + 1] = Wrong)

Fit(r) == Fitting(r.vs) = r.vs

(* handle_batch_insert compares the lengths before it adds anything.       *)
Mismatch(r) ==
  r.route = "batch_insert" /\ \E n \in r.payloads : n # Len(r.vs)

(* handle_search: the request's k or the default, at most MAX_K, not 0.    *)
EffectiveK(r) == Min({MAX_K} \cup IF r.k = {} THEN {DefaultK} ELSE r.k)

Status(r) ==
  CASE r.route = "options" -> 204
    [] r.route \in {"page", "stats", "insert"} -> 200
    [] r.route = "unknown" -> 404
    [] r.route = "malformed" -> 400
    [] r.route = "search" -> IF EffectiveK(r) = 0 THEN 400 ELSE 200
    [] r.route = "batch_insert" -> IF Mismatch(r) THEN 400 ELSE 200

Adds(r) == r.route \in {"insert", "batch_insert"} /\ Status(r) = 200

(* An insert answers with the first id, a search or stats sees the length. *)
Found(r) == IF Adds(r) \/ r.route \in {"search", "stats"} THEN Len(index) ELSE 0

Reply(c, r) ==
  /\ index' = IF Adds(r) THEN index \o r.vs ELSE index
  /\ complete' = complete \cup {Len(index')}
  /\ outbox' = [outbox EXCEPT ![c] = <<Answer(r, Status(r), Found(r))>>]
  /\ UNCHANGED <<conn, up>>

(* Variant: the panic is caught, and its connection closed. *)
PanicCaught(c, r) ==
  /\ index' = IF Adds(r) THEN index \o Fitting(r.vs) ELSE index
  /\ Close(c)
  /\ UNCHANGED <<outbox, complete, up>>

(* A panic in an extern "C" function aborts the process, whatever the      *)
(* build, with every vector of the index.                                  *)
Panic(c, r) ==
  /\ index' = IF Adds(r) THEN index \o Fitting(r.vs) ELSE index
  /\ up' = FALSE
  /\ UNCHANGED <<conn, outbox, complete>>

Callback(c) ==
  /\ Turn(c) /\ conn[c] = "open" /\ outbox[c] = <<>> /\ inbox[c] # <<>>
  /\ LET r == Head(inbox[c]) IN
     /\ r.route # "oversized"
     /\ \/ /\ Fit(r) \/ Status(r) # 200
           /\ Reply(c, r)
        \/ /\ ~Fit(r) /\ Status(r) = 200
           /\ Panic(c, r)
  /\ inbox' = [inbox EXCEPT ![c] = Tail(@)]
  /\ expired' = expired \ {c}
  /\ UNCHANGED <<server, bound, pc, boxes, gencb, exitQueued, gotterm, peer, got, owed, counts>>

(* The last Arc of the server goes, when no thread is in run: evhttp_free  *)
(* closes every connection, and then the base is freed.                    *)
Drop ==
  /\ up /\ server = "shared" /\ pc = "off"
  /\ server' = "dropped"
  /\ conn' = [c \in Clients |-> IF conn[c] = "none" THEN "none" ELSE "closed"]
  /\ UNCHANGED <<bound, pc, loop, data, peer, inbox, outbox, expired, got, owed, counts>>

-----------------------------------------------------------------------------
LoopStep ==
  \/ Dispatch \/ Top \/ Wake \/ Return \/ Exit \/ AllProcessed
  \/ \E c \in Clients : Accept(c) \/ Write(c) \/ HangUp(c) \/ Oversized(c) \/ Callback(c)

Next ==
  \/ Bind \/ Share \/ Stop \/ Run \/ Drop \/ LoopStep
  \/ \E c \in Clients : Connect(c) \/ Leave(c) \/ Expire(c)
                        \/ \E r \in Requests : Request(c, r)

Spec == Init /\ [][Next]_vars

(* The OS runs the thread in run, and time passes. *)
FairSpec == Spec /\ WF_vars(LoopStep) /\ \A c \in Clients : WF_vars(Expire(c))

-----------------------------------------------------------------------------
(* "run 返回前该 Arc 一直存活，因此指针有效": whenever a callback may run, its   *)
(* argument is a box that is not freed, in every run of the same server    *)
(* and with connections that are left over from an earlier one.            *)
ContextAlive == pc \in {"dispatch", "top", "asleep", "process"} => gencb \in boxes

Received == UNION {{got[c][i] : i \in DOMAIN got[c]} : c \in Clients}

(* What an answer says of the index is true and stays true: an insert's    *)
(* ids are the places of its vectors, a batch is searched and counted as a *)
(* whole or not at all, and a request that was refused left no vector.     *)
AnswersHold ==
  /\ \A a \in Received :
       /\ a.status = 200 => a.found \in complete
       /\ a.status = 200 /\ Adds(a.of) =>
            SubSeq(index, a.found + 1, a.found + Len(a.of.vs)) = a.of.vs
  /\ up => Len(index) \in complete

Waiting(c) == conn[c] = "open" /\ (inbox[c] # <<>> \/ outbox[c] # <<>>)

Running == pc # "off" /\ up

(* While run goes on, every request is answered or its connection ends.    *)
RequestsEnd == \A c \in Clients : Waiting(c) /\ Running ~> ~Waiting(c) \/ ~Running

(* A stop that was queued, before run or while the loop slept, ends it if  *)
(* a connection is open: its next request or its timeout wakes the loop.   *)
StopsWhenWoken ==
  owed /\ Running /\ (\E c \in Clients : conn[c] = "open") ~> ~Running

LoopServes == RequestsEnd /\ StopsWhenWoken
=============================================================================

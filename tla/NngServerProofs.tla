--------------------------- MODULE NngServerProofs ----------------------------
(***************************************************************************)
(* Theorems about NngServer for any number of clients, descriptors and     *)
(* frames, imports and batches of any length, and both builds, and about   *)
(* NngPayload for words of any width.                                      *)
(***************************************************************************)
EXTENDS NngServer, NngPayload, SequenceTheorems, TLAPS

Labels == {"none", "length", "body", "lock", "work", "reply", "refuse",
           "close", "close again", "gone", "panicked"}

Tokens == [part : {"length", "body"}, of : Frames]
AllFrames == Frames \cup {NoFrame}
Replies == [of : AllFrames, ok : BOOLEAN, found : Seq(Nat)]

(* What travels is frames, and a thread that was started has a descriptor. *)
WireInv ==
  /\ stream \in [Clients -> Seq(Tokens)]
  /\ backlog \in Seq(Clients)
  /\ table \in [Fds -> Clients \cup {NoClient}]
  /\ fd \in [Clients -> Nat]
  /\ pc \in [Clients -> Labels]
  /\ \A c \in Clients : pc[c] # "none" => fd[c] \in Fds
  /\ frame \in [Clients -> AllFrames]
  /\ load \in Workloads

(* The state of the requests has its types. *)
WorkType ==
  /\ left \in [Clients -> Seq(Vectors)]
  /\ found \in [Clients -> Seq(Nat)]
  /\ index \in Seq(Vectors)
  /\ complete \subseteq Nat
  /\ replies \in [Clients -> Seq(Replies)]
  /\ holder \in Clients \cup {NoClient}
  /\ poisoned \in BOOLEAN

(* The Mutex: who works has it, and when it is free and not poisoned the   *)
(* index is as a request left it.                                          *)
MutexInv ==
  /\ up => \A c \in Clients : pc[c] = "work" => holder = c
  /\ up /\ holder = NoClient /\ ~poisoned => Len(index) \in complete

Seeing == {"search", "batch", "export"}
Inserting == {"insert", "import"}

(* What a request that looks at the index answers: one length of it, as it *)
(* was between two requests.                                               *)
Saw(f, s, whole) ==
  f.cmd \in Seeing =>
    \A i \in 1..Len(s) : s[i] \in whole /\ \A j \in 1..Len(s) : s[i] = s[j]

(* What an insert answers: the place of its vector. *)
Stored(f, s, ix) ==
  f.cmd = "insert" => Len(s) = 1 /\ s[1] < Len(ix) /\ ix[s[1] + 1] = f.vs[1]

(* A thread before, in and after its work. *)
Waits(c) == pc[c] = "lock" => found[c] = <<>>

Works(c) ==
  pc[c] = "work" =>
    /\ frame[c].cmd \notin Inserting => Len(index) \in complete
    /\ frame[c].cmd \in Seeing => \A i \in 1..Len(found[c]) : found[c][i] = Len(index)
    /\ frame[c].cmd = "insert" =>
         \/ found[c] = <<>> /\ left[c] = frame[c].vs
         \/ left[c] = <<>> /\ Stored(frame[c], found[c], index)

Answers(c) ==
  pc[c] = "reply" => Saw(frame[c], found[c], complete) /\ Stored(frame[c], found[c], index)

Replied ==
  \A c \in Clients : \A i \in 1..Len(replies[c]) :
    replies[c][i].ok => /\ Saw(replies[c][i].of, replies[c][i].found, complete)
                        /\ Stored(replies[c][i].of, replies[c][i].found, index)

(* No id is told twice: neither to threads nor to clients. *)
Told(c) == pc[c] \in {"work", "reply"} /\ frame[c].cmd = "insert" /\ found[c] # <<>>

IsId(r) == r.ok /\ r.of.cmd = "insert"

IdInv ==
  /\ \A c, d \in Clients : Told(c) /\ Told(d) /\ found[c] = found[d] => c = d
  /\ \A c, d \in Clients : \A i \in 1..Len(replies[d]) :
       Told(c) /\ IsId(replies[d][i]) => replies[d][i].found # found[c]
  /\ \A c, d \in Clients : \A i \in 1..Len(replies[c]), j \in 1..Len(replies[d]) :
       IsId(replies[c][i]) /\ IsId(replies[d][j]) /\ replies[c][i].found = replies[d][j].found
         => c = d /\ i = j

ServerInv ==
  /\ WorkType /\ MutexInv
  /\ \A c \in Clients : Waits(c) /\ Works(c) /\ Answers(c)
  /\ Replied /\ IdInv

-----------------------------------------------------------------------------
(* The wire. *)

LEMMA HeadTail ==
  ASSUME NEW S, NEW q \in Seq(S), q # <<>>
  PROVE  Head(q) \in S /\ Tail(q) \in Seq(S)
  OBVIOUS

LEMMA Appended ==
  ASSUME NEW S, NEW q \in Seq(S), NEW x \in S
  PROVE  /\ Append(q, x) \in Seq(S) /\ Len(Append(q, x)) = Len(q) + 1 /\ Len(q) \in Nat
         /\ \A i \in 1..Len(q) : Append(q, x)[i] = q[i]
         /\ Append(q, x)[Len(q) + 1] = x
  OBVIOUS

LEMMA LastOrBefore ==
  ASSUME NEW m \in Nat, NEW i \in 1..(m + 1)
  PROVE  i \in 1..m \/ i = m + 1
  OBVIOUS

LEMMA Single ==
  ASSUME NEW S, NEW q \in Seq(S), Len(q) = 1
  PROVE  Tail(q) = <<>> /\ Head(q) = q[1] /\ q # <<>>
<1>1. q # <<>> /\ Head(q) = q[1]
  OBVIOUS
<1>2. Tail(q) \in Seq(S) /\ Len(Tail(q)) = 0
  BY <1>1, HeadTailProperties
<1>. QED
  BY <1>1, <1>2, EmptySeq

(* A thread that reads or writes has the bytes of one connection.          *)
LEMMA SomeConnection ==
  ASSUME WireInv, NEW c \in Clients, pc[c] # "none", Connection(c) # NoClient
  PROVE  Connection(c) \in Clients
  BY DEF WireInv, Connection

(* The frame a thread reads is one that some client can send.              *)
LEMMA FrameRead ==
  ASSUME WireInv, NEW c \in Clients, ReadLength(c) \/ ReadBody(c)
  PROVE  /\ frame' \in [Clients -> AllFrames]
         /\ stream' \in [Clients -> Seq(Tokens)]
<1>1. Connection(c) \in Clients
  BY SomeConnection DEF ReadLength, ReadBody
<1>2. stream[Connection(c)] \in Seq(Tokens) /\ stream[Connection(c)] # <<>>
  BY <1>1 DEF WireInv, ReadLength, ReadBody
<1>3. Head(stream[Connection(c)]) \in Tokens /\ Tail(stream[Connection(c)]) \in Seq(Tokens)
  BY <1>2, HeadTail
<1>4. load.frames \subseteq Frames
  BY WorkloadsAssumption DEF WireInv
<1>5. stream' \in [Clients -> Seq(Tokens)]
  BY <1>3 DEF ReadLength, ReadBody, WireInv
<1>6. CASE ReadLength(c)
  BY <1>3, <1>4, <1>5, <1>6 DEF ReadLength, Tokens, AllFrames, WireInv
<1>7. CASE ReadBody(c)
  BY <1>4, <1>5, <1>7 DEF ReadBody, AllFrames, WireInv
<1>. QED
  BY <1>6, <1>7

LEMMA WireInit == Init => WireInv
<1> SUFFICES ASSUME Init PROVE WireInv
  OBVIOUS
<1>1. /\ stream \in [Clients -> Seq(Tokens)] /\ backlog \in Seq(Clients)
      /\ fd \in [Clients -> Nat]
  BY DEF Init
<1>2. /\ table \in [Fds -> Clients \cup {NoClient}] /\ frame \in [Clients -> AllFrames]
      /\ load \in Workloads
  BY DEF Init, AllFrames
<1>3. pc \in [Clients -> Labels] /\ \A c \in Clients : pc[c] = "none"
  BY DEF Init, Labels
<1>. QED
  BY <1>1, <1>2, <1>3 DEF WireInv

LEMMA WireStep == WireInv /\ [Next]_vars => WireInv'
<1> SUFFICES ASSUME WireInv, [Next]_vars PROVE WireInv'
  OBVIOUS
<1>1. ASSUME NEW c \in Clients, NEW l \in Labels \ {"none"}, Goto(c, l), pc[c] # "none",
             UNCHANGED <<backlog, fd, load>>,
             stream' \in [Clients -> Seq(Tokens)], frame' \in [Clients -> AllFrames],
             table' \in [Fds -> Clients \cup {NoClient}]
      PROVE  WireInv'
  BY <1>1 DEF WireInv, Goto
<1>2. ASSUME UNCHANGED <<backlog, pc, fd, frame, load, stream>>,
             table' \in [Fds -> Clients \cup {NoClient}]
      PROVE  WireInv'
  BY <1>2 DEF WireInv
<1>3. CASE UNCHANGED vars
  BY <1>2, <1>3 DEF vars, net, thread, shared, world, WireInv
<1>4. ASSUME NEW c \in Clients, Connect(c) PROVE WireInv'
  <2>1. /\ backlog' = Append(backlog, c)
        /\ UNCHANGED <<stream, table, fd, pc, frame, load>>
    BY <1>4 DEF Connect, thread, world
  <2>2. backlog' \in Seq(Clients)
    BY <2>1, Appended DEF WireInv
  <2>. QED
    BY <2>1, <2>2 DEF WireInv
<1>5. ASSUME NEW c \in Clients, Leave(c) PROVE WireInv'
  BY <1>2, <1>5 DEF Leave, thread, world, WireInv
<1>6. ASSUME NEW c \in Clients, NEW f \in Frames, Request(c, f) PROVE WireInv'
  <2>1. /\ stream' = [stream EXCEPT ![c] = @ \o
             (IF f.cmd = "length" THEN <<[part |-> "length", of |-> f]>>
              ELSE <<[part |-> "length", of |-> f], [part |-> "body", of |-> f]>>)]
        /\ UNCHANGED <<backlog, table, fd, pc, frame, load>>
    BY <1>6 DEF Request, thread, world
  <2>2. [part |-> "length", of |-> f] \in Tokens /\ [part |-> "body", of |-> f] \in Tokens
    BY DEF Tokens
  <2>3. stream' \in [Clients -> Seq(Tokens)]
    BY <2>1, <2>2 DEF WireInv
  <2>. QED
    BY <2>1, <2>3 DEF WireInv
<1>7. CASE Accept
  <2> DEFINE h == Head(backlog)
  <2>1. h \in Clients /\ Tail(backlog) \in Seq(Clients)
    BY <1>7, HeadTail DEF Accept, WireInv
  <2>2. load.fds \subseteq Fds
    BY WorkloadsAssumption DEF WireInv
  <2>3. PICK f \in Fds :
          table' = [table EXCEPT ![f] = h] /\ fd' = [fd EXCEPT ![h] = f]
    BY <1>7, <2>2 DEF Accept
  <2>4. f \in Nat
    BY FdsAssumption
  <2>5. /\ pc' = [pc EXCEPT ![h] = "length"] /\ backlog' = Tail(backlog)
        /\ UNCHANGED <<stream, frame, load>>
    BY <1>7 DEF Accept, Goto, net, world
  <2> HIDE DEF h
  <2>. QED
    BY <2>1, <2>3, <2>4, <2>5 DEF WireInv, Labels
<1>8. ASSUME NEW c \in Clients, ReadLength(c) \/ ReadBody(c) PROVE WireInv'
  <2>1. \E l \in Labels \ {"none"} : Goto(c, l)
    BY <1>8 DEF ReadLength, ReadBody, Labels
  <2>2. pc[c] # "none" /\ UNCHANGED <<backlog, fd, load, table>>
    BY <1>8 DEF ReadLength, ReadBody, world
  <2>. QED
    BY <1>1, <1>8, <2>1, <2>2, FrameRead DEF WireInv
<1>9. ASSUME NEW c \in Clients, Panic(c), pc[c] # "none" PROVE WireInv'
  <2>1. UNCHANGED <<stream, backlog, fd, frame, load>>
    BY <1>9 DEF Panic, net
  <2>2. CASE build = "unwind"
    <3>1. Goto(c, "panicked") /\ UNCHANGED table
      BY <1>9, <2>2 DEF Panic
    <3>. QED
      BY <1>1, <1>9, <2>1, <3>1 DEF Labels, WireInv
  <2>3. CASE build # "unwind"
    <3>1. table' = [f \in Fds |-> NoClient] /\ UNCHANGED pc
      BY <1>9, <2>3 DEF Panic
    <3>. QED
      BY <1>2, <2>1, <3>1
  <2>. QED
    BY <2>2, <2>3
<1>10. ASSUME NEW c \in Clients, pc[c] # "none", UNCHANGED <<stream, backlog, table, fd, frame, load>>,
              UNCHANGED pc \/ \E l \in Labels \ {"none"} : Goto(c, l)
       PROVE  WireInv'
  BY <1>1, <1>2, <1>10 DEF WireInv
<1>11. ASSUME NEW c \in Clients, Lock(c) \/ Add(c) \/ Query(c) PROVE WireInv'
  <2>1. pc[c] # "none"
    BY <1>11 DEF Lock, Add, Query
  <2>2. \/ Panic(c)
        \/ /\ UNCHANGED <<stream, backlog, table, fd, frame, load>>
           /\ UNCHANGED pc \/ Goto(c, "work")
    BY <1>11 DEF Lock, TakeLock, Enter, Add, Query, net, world
  <2>. QED
    BY <1>9, <1>10, <2>1, <2>2 DEF Labels
<1>12. ASSUME NEW c \in Clients, ReadFails(c) \/ Export(c) \/ Release(c) \/ Reply(c) \/ Refuse(c)
       PROVE  WireInv'
  <2>1. pc[c] # "none" /\ UNCHANGED <<stream, backlog, table, fd, frame, load>>
    BY <1>12 DEF ReadFails, Export, Release, WorkDone, Reply, Refuse, net, world
  <2>2. UNCHANGED pc \/ \E l \in Labels \ {"none"} : Goto(c, l)
    BY <1>12 DEF ReadFails, Export, Release, Reply, Refuse, Labels
  <2>. QED
    BY <1>10, <2>1, <2>2
<1>13. ASSUME NEW c \in Clients, Close(c) \/ CloseAgain(c) PROVE WireInv'
  <2>1. /\ pc[c] # "none" /\ UNCHANGED <<stream, backlog, fd, frame, load>>
        /\ table' = [table EXCEPT ![fd[c]] = NoClient]
        /\ \E l \in Labels \ {"none"} : Goto(c, l)
    BY <1>13 DEF Close, CloseAgain, net, world, Labels
  <2>2. table' \in [Fds -> Clients \cup {NoClient}]
    BY <2>1 DEF WireInv
  <2>. QED
    BY <1>1, <2>1, <2>2 DEF WireInv
<1>. QED
  BY <1>3, <1>4, <1>5, <1>6, <1>7, <1>8, <1>11, <1>12, <1>13 DEF Next, ThreadStep

-----------------------------------------------------------------------------
(* The requests. *)

(* What one thread does to itself leaves the others and all ids alone.     *)
LEMMA LocalStep ==
  ASSUME ServerInv, NEW c \in Clients,
         \A d \in Clients \ {c} : /\ pc'[d] = pc[d] /\ frame'[d] = frame[d]
                                  /\ left'[d] = left[d] /\ found'[d] = found[d],
         index' = index, complete \subseteq complete', replies' = replies,
         Waits(c)', Works(c)', Answers(c)',
         Told(c)' => Told(c) /\ found'[c] = found[c]
  PROVE  /\ \A d \in Clients : Waits(d)' /\ Works(d)' /\ Answers(d)'
         /\ Replied' /\ IdInv'
<1>1. ASSUME NEW d \in Clients PROVE Waits(d)' /\ Works(d)' /\ Answers(d)'
  <2>1. CASE d = c
    BY <2>1
  <2>2. CASE d # c
    BY <2>2 DEF ServerInv, Waits, Works, Answers, Saw, Stored
  <2>. QED
    BY <2>1, <2>2
<1>2. Replied'
  <2> SUFFICES ASSUME NEW d \in Clients, NEW i \in 1..Len(replies[d]), replies[d][i].ok
               PROVE  /\ Saw(replies[d][i].of, replies[d][i].found, complete')
                      /\ Stored(replies[d][i].of, replies[d][i].found, index)
    BY DEF Replied
  <2>1. /\ Saw(replies[d][i].of, replies[d][i].found, complete)
        /\ Stored(replies[d][i].of, replies[d][i].found, index)
    BY DEF ServerInv, Replied
  <2>. QED
    BY <2>1 DEF Saw
<1>3. \A d \in Clients : Told(d)' => Told(d) /\ found'[d] = found[d]
  BY DEF Told
<1>4. IdInv'
  BY <1>3 DEF ServerInv, IdInv
<1>. QED
  BY <1>1, <1>2, <1>4

(* The steps that touch neither the index nor the Mutex, and leave the     *)
(* thread where it has nothing to answer.                                  *)
LEMMA QuietStep ==
  ASSUME ServerInv, NEW c \in Clients, NEW l \in Labels \ {"work"},
         UNCHANGED <<left, index, complete, holder, poisoned, replies>>,
         pc' = [pc EXCEPT ![c] = l], pc \in [Clients -> Labels],
         \A d \in Clients \ {c} : frame'[d] = frame[d],
         found' = found \/ found' = [found EXCEPT ![c] = <<>>],
         l = "reply" => frame'[c].cmd \notin Seeing \cup Inserting,
         l = "lock" => found'[c] = <<>>,
         up' => up
  PROVE  ServerInv'
<1>1. \A d \in Clients \ {c} : /\ pc'[d] = pc[d] /\ frame'[d] = frame[d]
                              /\ left'[d] = left[d] /\ found'[d] = found[d]
  BY DEF ServerInv, WorkType
<1>2. pc'[c] = l /\ Waits(c)' /\ Works(c)' /\ Answers(c)' /\ ~Told(c)'
  <2>1. pc'[c] = l /\ l # "work"
    OBVIOUS
  <2>2. Waits(c)' /\ Works(c)'
    BY <2>1 DEF Waits, Works
  <2>3. l = "reply" => frame'[c].cmd \notin Seeing /\ frame'[c].cmd # "insert"
    BY DEF Inserting
  <2>4. Answers(c)' /\ ~Told(c)'
    BY <2>1, <2>3 DEF Answers, Told, Saw, Stored
  <2>. QED
    BY <2>1, <2>2, <2>4
<1>3. WorkType'
  <2>1. <<>> \in Seq(Nat) /\ found \in [Clients -> Seq(Nat)]
    BY DEF ServerInv, WorkType
  <2>2. found' \in [Clients -> Seq(Nat)]
    BY <2>1
  <2>. QED
    BY <2>2 DEF ServerInv, WorkType
<1>4. MutexInv'
  BY <1>1, <1>2 DEF ServerInv, MutexInv
<1>5. /\ \A d \in Clients : Waits(d)' /\ Works(d)' /\ Answers(d)'
      /\ Replied' /\ IdInv'
  BY <1>1, <1>2, LocalStep
<1>. QED
  BY <1>3, <1>4, <1>5 DEF ServerInv

(* Nothing of a request changes. *)
LEMMA StillStep ==
  ASSUME ServerInv, UNCHANGED <<pc, frame, left, found, shared, replies>>, up' => up
  PROVE  ServerInv'
  BY DEF ServerInv, WorkType, MutexInv, Waits, Works, Answers, Replied, IdInv, Told, shared

(* A panic gives the Mutex back with its poison, so the index is not       *)
(* looked at any more; or it ends the process.                             *)
LEMMA PanicStep ==
  ASSUME WireInv, ServerInv, NEW c \in Clients, Panic(c)
  PROVE  ServerInv'
<1>1. UNCHANGED <<frame, left, found, index, complete, replies>>
  BY DEF Panic, net
<1>2. CASE build = "unwind"
  <2>1. pc' = [pc EXCEPT ![c] = "panicked"] /\ up' = up
    BY <1>2 DEF Panic, Goto
  <2>2. \A d \in Clients \ {c} : /\ pc'[d] = pc[d] /\ frame'[d] = frame[d]
                                /\ left'[d] = left[d] /\ found'[d] = found[d]
    BY <1>1, <2>1 DEF WireInv
  <2>3. pc'[c] = "panicked" /\ Waits(c)' /\ Works(c)' /\ Answers(c)' /\ ~Told(c)'
    BY <2>1 DEF WireInv, Waits, Works, Answers, Told
  <2>4. /\ holder = c => holder' = NoClient /\ poisoned' = TRUE
        /\ holder # c => UNCHANGED <<holder, poisoned>>
    BY DEF Panic
  <2>5. WorkType'
    BY <1>1, <2>4 DEF ServerInv, WorkType
  <2>6. MutexInv'
    <3>1. ASSUME up', NEW d \in Clients, pc'[d] = "work" PROVE holder' = d
      BY <2>1, <2>2, <2>3, <2>4, <3>1 DEF ServerInv, MutexInv
    <3>2. ASSUME up', holder' = NoClient, ~poisoned' PROVE Len(index') \in complete'
      BY <1>1, <2>1, <2>4, <3>2 DEF ServerInv, MutexInv
    <3>. QED
      BY <3>1, <3>2 DEF MutexInv
  <2>7. /\ \A d \in Clients : Waits(d)' /\ Works(d)' /\ Answers(d)'
        /\ Replied' /\ IdInv'
    BY <1>1, <2>2, <2>3, LocalStep
  <2>. QED
    BY <2>5, <2>6, <2>7 DEF ServerInv
<1>3. CASE build # "unwind"
  <2>1. pc' = pc /\ ~up'
    BY <1>3 DEF Panic
  <2>2. holder' \in Clients \cup {NoClient} /\ poisoned' \in BOOLEAN
    BY DEF Panic, ServerInv, WorkType
  <2>3. WorkType' /\ MutexInv'
    BY <1>1, <2>1, <2>2 DEF ServerInv, WorkType, MutexInv
  <2>. QED
    BY <1>1, <2>1, <2>3 DEF ServerInv, Waits, Works, Answers, Replied, IdInv, Told
<1>. QED
  BY <1>2, <1>3

(* index.lock() that succeeds finds the index between two requests.        *)
LEMMA LockStep ==
  ASSUME WireInv, ServerInv, NEW c \in Clients, Lock(c)
  PROVE  ServerInv'
<1>1. CASE Panic(c)
  BY <1>1, PanicStep
<1>2. CASE TakeLock(c)
  <2>1. /\ up /\ holder = NoClient /\ ~poisoned /\ pc[c] = "lock" /\ found[c] = <<>>
        /\ Len(index) \in complete
    BY <1>2 DEF Lock, TakeLock, ServerInv, MutexInv, Waits
  <2>2. /\ holder' = c /\ left' = [left EXCEPT ![c] = frame[c].vs]
        /\ pc' = [pc EXCEPT ![c] = "work"]
        /\ UNCHANGED <<frame, found, poisoned, index, complete, replies, up>>
    BY <1>2 DEF TakeLock, Enter, Goto, net, world
  <2>3. frame[c].vs \in Seq(Vectors)
    <3>1. frame[c] \in Frames \cup {NoFrame}
      BY DEF WireInv, AllFrames
    <3>2. NoFrame.vs \in Seq(Vectors)
      BY DEF NoFrame
    <3>. QED
      BY <3>1, <3>2, FramesAssumption
  <2>4. \A d \in Clients \ {c} : /\ pc'[d] = pc[d] /\ frame'[d] = frame[d]
                                /\ left'[d] = left[d] /\ found'[d] = found[d]
    BY <2>2 DEF WireInv, ServerInv, WorkType
  <2>5. pc'[c] = "work" /\ left'[c] = frame[c].vs /\ found'[c] = <<>> /\ frame'[c] = frame[c]
    BY <2>1, <2>2 DEF WireInv, ServerInv, WorkType
  <2>6. Waits(c)' /\ Works(c)' /\ Answers(c)' /\ ~Told(c)'
    BY <2>1, <2>2, <2>5 DEF Waits, Works, Answers, Told
  <2>7. WorkType'
    BY <2>2, <2>3 DEF ServerInv, WorkType
  <2>8. MutexInv'
    <3>1. ASSUME NEW d \in Clients, pc'[d] = "work" PROVE d = c
      BY <2>1, <2>4, <3>1, ClientsAssumption DEF ServerInv, MutexInv
    <3>. QED
      BY <2>2, <3>1, ClientsAssumption DEF MutexInv
  <2>9. /\ \A d \in Clients : Waits(d)' /\ Works(d)' /\ Answers(d)'
        /\ Replied' /\ IdInv'
    BY <2>2, <2>4, <2>6, LocalStep
  <2>. QED
    BY <2>7, <2>8, <2>9 DEF ServerInv
<1>. QED
  BY <1>1, <1>2 DEF Lock

(* Only the holder works, so what it sees does not change under it.        *)
LEMMA QueryStep ==
  ASSUME WireInv, ServerInv, NEW c \in Clients, Query(c) \/ Export(c)
  PROVE  ServerInv'
<1>1. CASE Panic(c)
  BY <1>1, PanicStep
<1>2. CASE ~Panic(c)
  <2>1. /\ pc[c] = "work" /\ frame[c].cmd \in Seeing
        /\ found' = [found EXCEPT ![c] = Append(@, Len(index))]
        /\ left' = left \/ left' = [left EXCEPT ![c] = Tail(@)]
        /\ left' # left => left[c] # <<>>
        /\ UNCHANGED <<pc, frame, index, complete, holder, poisoned, replies, up>>
    <3>1. CASE Query(c)
      BY <1>2, <3>1 DEF Query, Seeing, net, shared, world
    <3>2. CASE Export(c)
      <4>1. found[c] = <<>> /\ Append(found[c], Len(index)) = <<Len(index)>>
        BY <3>2 DEF Export
      <4>. QED
        BY <3>2, <4>1 DEF Export, Seeing, net, shared, world, ServerInv, WorkType
    <3>. QED
      BY <3>1, <3>2
  <2>2. found[c] \in Seq(Nat) /\ Len(index) \in Nat /\ left[c] \in Seq(Vectors)
    BY DEF ServerInv, WorkType
  <2>3. /\ Append(found[c], Len(index)) \in Seq(Nat)
        /\ \A i \in 1..Len(Append(found[c], Len(index))) : Append(found[c], Len(index))[i] = Len(index)
    <3>1. \A i \in 1..Len(found[c]) : found[c][i] = Len(index)
      BY <2>1 DEF ServerInv, Works
    <3>. QED
      BY <2>2, <3>1, Appended
  <2>4. \A d \in Clients \ {c} : /\ pc'[d] = pc[d] /\ frame'[d] = frame[d]
                                /\ left'[d] = left[d] /\ found'[d] = found[d]
    BY <2>1 DEF ServerInv, WorkType
  <2>5. found'[c] = Append(found[c], Len(index)) /\ pc'[c] = "work" /\ frame'[c] = frame[c]
    BY <2>1 DEF ServerInv, WorkType
  <2>6. Waits(c)' /\ Works(c)' /\ Answers(c)' /\ ~Told(c)'
    <3>1. frame[c].cmd \notin Inserting /\ frame[c].cmd # "insert" /\ Len(index) \in complete
      BY <2>1 DEF ServerInv, Works, Seeing, Inserting
    <3>. QED
      BY <2>1, <2>3, <2>5, <3>1 DEF Waits, Works, Answers, Told
  <2>7. WorkType'
    <3>1. left' \in [Clients -> Seq(Vectors)]
      <4>1. CASE left' = left
        BY <4>1 DEF ServerInv, WorkType
      <4>2. CASE left' # left
        <5>1. Tail(left[c]) \in Seq(Vectors) /\ left' = [left EXCEPT ![c] = Tail(left[c])]
          BY <2>1, <2>2, <4>2, HeadTail
        <5>. QED
          BY <5>1 DEF ServerInv, WorkType
      <4>. QED
        BY <4>1, <4>2
    <3>2. found' \in [Clients -> Seq(Nat)]
      BY <2>1, <2>3 DEF ServerInv, WorkType
    <3>. QED
      BY <2>1, <3>1, <3>2 DEF ServerInv, WorkType
  <2>8. MutexInv'
    BY <2>1 DEF ServerInv, MutexInv
  <2>9. /\ \A d \in Clients : Waits(d)' /\ Works(d)' /\ Answers(d)'
        /\ Replied' /\ IdInv'
    BY <2>1, <2>4, <2>6, LocalStep
  <2>. QED
    BY <2>7, <2>8, <2>9 DEF ServerInv
<1>. QED
  BY <1>1, <1>2

(* An insert learns the place of its vector while it has the Mutex, and    *)
(* that place is new.                                                      *)
LEMMA AddStep ==
  ASSUME WireInv, ServerInv, NEW c \in Clients, Add(c)
  PROVE  ServerInv'
<1>1. CASE Panic(c)
  BY <1>1, PanicStep
<1>2. CASE ~Panic(c)
  <2> DEFINE v == Head(left[c])
             n == Len(index)
  <2>1. /\ up /\ pc[c] = "work" /\ frame[c].cmd \in Inserting /\ left[c] # <<>> /\ holder = c
        /\ index' = Append(index, v) /\ left' = [left EXCEPT ![c] = Tail(@)]
        /\ found' = IF frame[c].cmd = "insert" THEN [found EXCEPT ![c] = <<n>>] ELSE found
        /\ UNCHANGED <<pc, frame, complete, holder, poisoned, replies, up>>
    BY <1>2 DEF Add, Inserting, ServerInv, MutexInv, net, world
  <2>2. v \in Vectors /\ Tail(left[c]) \in Seq(Vectors)
    BY <2>1, HeadTail DEF ServerInv, WorkType
  <2>3. /\ index' \in Seq(Vectors) /\ Len(index') = n + 1 /\ n \in Nat
        /\ \A i \in 1..n : index'[i] = index[i]
        /\ index'[n + 1] = v
    BY <2>1, <2>2, Appended DEF ServerInv, WorkType
  <2> HIDE DEF n
  <2>4. \A d \in Clients \ {c} : /\ pc'[d] = pc[d] /\ frame'[d] = frame[d]
                                /\ left'[d] = left[d] /\ found'[d] = found[d] /\ pc[d] # "work"
    BY <2>1 DEF ServerInv, WorkType, MutexInv
  <2>5. ASSUME NEW f \in AllFrames, NEW s \in Seq(Nat), Stored(f, s, index)
        PROVE  Stored(f, s, index')
    <3>1. ASSUME Len(s) = 1 PROVE s[1] \in Nat
      BY <3>1, ElementOfSeq
    <3>. QED
      BY <2>3, <2>5, <3>1 DEF Stored, n
  <2>6. /\ frame[c] \in AllFrames
        /\ frame[c].cmd = "insert" =>
             /\ found[c] = <<>> /\ left[c] = frame[c].vs /\ Len(left[c]) = 1
             /\ Tail(left[c]) = <<>> /\ v = frame[c].vs[1]
    <3>1. frame[c] \in AllFrames
      BY DEF WireInv
    <3>2. ASSUME frame[c].cmd = "insert" PROVE frame[c] \in Frames /\ Len(frame[c].vs) = 1
      BY <3>1, <3>2, FramesAssumption DEF AllFrames, NoFrame
    <3>3. frame[c].cmd = "insert" => found[c] = <<>> /\ left[c] = frame[c].vs
      BY <2>1 DEF ServerInv, Works
    <3>4. left[c] \in Seq(Vectors)
      BY DEF ServerInv, WorkType
    <3>5. Len(left[c]) = 1 => Tail(left[c]) = <<>> /\ Head(left[c]) = left[c][1]
      BY <3>4, Single
    <3>. QED
      BY <3>1, <3>2, <3>3, <3>5
  <2> HIDE DEF v
  <2>7. /\ pc'[c] = "work" /\ frame'[c] = frame[c] /\ left'[c] = Tail(left[c])
        /\ found'[c] = IF frame[c].cmd = "insert" THEN <<n>> ELSE found[c]
    BY <2>1 DEF ServerInv, WorkType
  <2>8. Waits(c)' /\ Works(c)' /\ Answers(c)'
    <3>1. frame[c].cmd = "insert" => left'[c] = <<>> /\ Stored(frame[c], found'[c], index')
      BY <2>3, <2>6, <2>7 DEF Stored
    <3>. QED
      BY <2>1, <2>7, <3>1 DEF Waits, Works, Answers, Seeing, Inserting
  <2>9. ASSUME NEW d \in Clients, d # c PROVE Waits(d)' /\ Works(d)' /\ Answers(d)'
    <3>1. frame[d] \in AllFrames /\ found[d] \in Seq(Nat)
      BY DEF WireInv, ServerInv, WorkType
    <3>. QED
      BY <2>1, <2>4, <2>5, <2>9, <3>1 DEF ServerInv, Waits, Works, Answers
  <2>10. Replied'
    <3> SUFFICES ASSUME NEW d \in Clients, NEW i \in 1..Len(replies[d]), replies[d][i].ok
                 PROVE  /\ Saw(replies[d][i].of, replies[d][i].found, complete)
                        /\ Stored(replies[d][i].of, replies[d][i].found, index')
      BY <2>1 DEF Replied
    <3>1. replies[d] \in Seq(Replies)
      BY DEF ServerInv, WorkType
    <3>2. replies[d][i] \in Replies
      BY <3>1, ElementOfSeq
    <3>3. replies[d][i].of \in AllFrames /\ replies[d][i].found \in Seq(Nat)
      BY <3>2 DEF Replies
    <3>. QED
      BY <2>5, <3>3 DEF ServerInv, Replied
  <2>11. ASSUME NEW d \in Clients, d # c, Told(d) PROVE found[d] # <<n>>
    <3>1. pc[d] = "reply" /\ frame[d].cmd = "insert"
      BY <2>4, <2>11 DEF Told
    <3>2. found[d][1] < Len(index)
      BY <3>1 DEF ServerInv, Answers, Stored
    <3>. QED
      BY <2>3, <3>2 DEF n
  <2>12. ASSUME NEW d \in Clients, NEW i \in 1..Len(replies[d]), IsId(replies[d][i])
         PROVE  replies[d][i].found # <<n>>
    <3>1. replies[d][i].found[1] < Len(index)
      BY <2>12 DEF ServerInv, Replied, Stored, IsId
    <3>. QED
      BY <2>3, <3>1 DEF n
  <2>13. /\ Told(c)' => found'[c] = <<n>>
         /\ \A d \in Clients \ {c} : Told(d)' => Told(d) /\ found'[d] = found[d]
    BY <2>4, <2>7 DEF Told
  <2>14. IdInv'
    <3>1. ASSUME NEW d \in Clients, NEW e \in Clients, Told(d)', Told(e)', found'[d] = found'[e]
          PROVE  d = e
      <4>1. CASE d = c
        BY <2>11, <2>13, <3>1, <4>1
      <4>2. CASE e = c
        BY <2>11, <2>13, <3>1, <4>2
      <4>3. CASE d # c /\ e # c
        BY <2>13, <3>1, <4>3 DEF ServerInv, IdInv
      <4>. QED
        BY <4>1, <4>2, <4>3
    <3>2. ASSUME NEW d \in Clients, NEW e \in Clients, NEW i \in 1..Len(replies[e]),
                 Told(d)', IsId(replies[e][i])
          PROVE  replies[e][i].found # found'[d]
      <4>1. CASE d = c
        BY <2>12, <2>13, <3>2, <4>1
      <4>2. CASE d # c
        BY <2>13, <3>2, <4>2 DEF ServerInv, IdInv
      <4>. QED
        BY <4>1, <4>2
    <3>3. replies' = replies
      BY <2>1
    <3>4. \A d, e \in Clients : \A i \in 1..Len(replies[d]), j \in 1..Len(replies[e]) :
            IsId(replies[d][i]) /\ IsId(replies[e][j]) /\ replies[d][i].found = replies[e][j].found
              => d = e /\ i = j
      BY DEF ServerInv, IdInv
    <3>. QED
      BY <3>1, <3>2, <3>3, <3>4 DEF IdInv
  <2>15. WorkType'
    <3>1. left' \in [Clients -> Seq(Vectors)]
      BY <2>1, <2>2 DEF ServerInv, WorkType
    <3>2. <<n>> \in Seq(Nat)
      BY <2>3
    <3>3. found' \in [Clients -> Seq(Nat)]
      BY <2>1, <3>2 DEF ServerInv, WorkType
    <3>. QED
      BY <2>1, <2>3, <3>1, <3>3 DEF ServerInv, WorkType
  <2>16. MutexInv'
    BY <2>1, ClientsAssumption DEF ServerInv, MutexInv
  <2>. QED
    BY <2>8, <2>9, <2>10, <2>14, <2>15, <2>16 DEF ServerInv
<1>. QED
  BY <1>1, <1>2

(* The guard is dropped between two requests. *)
LEMMA ReleaseStep ==
  ASSUME WireInv, ServerInv, NEW c \in Clients, Release(c)
  PROVE  ServerInv'
<1>1. /\ up /\ pc[c] = "work" /\ left[c] = <<>> /\ holder = c /\ holder' = NoClient
      /\ complete' = IF Adding(c) THEN complete \cup {Len(index)} ELSE complete
      /\ pc' = [pc EXCEPT ![c] = "reply"]
      /\ UNCHANGED <<frame, left, found, poisoned, index, replies, up>>
  BY DEF Release, WorkDone, Goto, ServerInv, MutexInv, net, world
<1>2. \A d \in Clients \ {c} : /\ pc'[d] = pc[d] /\ frame'[d] = frame[d]
                              /\ left'[d] = left[d] /\ found'[d] = found[d] /\ pc[d] # "work"
  BY <1>1 DEF WireInv, ServerInv, MutexInv
<1>3. Len(index) \in Nat /\ Len(index) \in complete' /\ complete \subseteq complete' /\ complete' \subseteq Nat
  <2>1. Len(index) \in Nat /\ complete \subseteq Nat
    BY DEF ServerInv, WorkType
  <2>2. Adding(c) \/ Len(index) \in complete
    BY <1>1 DEF ServerInv, Works, Adding, Inserting
  <2>. QED
    BY <1>1, <2>1, <2>2
<1>4. pc'[c] = "reply" /\ frame'[c] = frame[c] /\ found'[c] = found[c]
  BY <1>1 DEF WireInv
<1>5. Saw(frame[c], found[c], complete')
  BY <1>1, <1>3 DEF ServerInv, Works, Saw
<1>6. Stored(frame[c], found[c], index)
  <2>1. CASE frame[c].cmd # "insert"
    BY <2>1 DEF Stored
  <2>2. CASE frame[c].cmd = "insert"
    <3>1. frame[c] \in AllFrames
      BY DEF WireInv
    <3>2. Len(frame[c].vs) = 1
      BY <2>2, <3>1, FramesAssumption DEF AllFrames, NoFrame
    <3>3. Len(left[c]) = 0
      <4>1. Len(<< >>) = 0
        BY EmptySeq
      <4>. QED
        BY <1>1, <4>1
    <3>4. left[c] # frame[c].vs
      BY <3>2, <3>3, 1 # 0
    <3>. QED
      BY <1>1, <2>2, <3>4 DEF ServerInv, Works
  <2>. QED
    BY <2>1, <2>2
<1>7. Waits(c)' /\ Works(c)' /\ Answers(c)'
  BY <1>1, <1>4, <1>5, <1>6 DEF Waits, Works, Answers
<1>8. Told(c)' => Told(c) /\ found'[c] = found[c]
  BY <1>1, <1>4 DEF Told
<1>9. WorkType'
  BY <1>1, <1>3 DEF ServerInv, WorkType
<1>10. MutexInv'
  <2>1. \A d \in Clients : pc'[d] # "work"
    BY <1>2, <1>4
  <2>. QED
    BY <1>1, <1>3, <2>1 DEF MutexInv
<1>11. /\ \A d \in Clients : Waits(d)' /\ Works(d)' /\ Answers(d)'
       /\ Replied' /\ IdInv'
  BY <1>1, <1>2, <1>3, <1>7, <1>8, LocalStep
<1>. QED
  BY <1>9, <1>10, <1>11 DEF ServerInv

LEMMA ReplyAppended ==
  ASSUME NEW q \in Seq(Replies), NEW x \in Replies
  PROVE  /\ Append(q, x) \in Seq(Replies) /\ Len(q) \in Nat
         /\ Len(Append(q, x)) = Len(q) + 1 /\ Append(q, x)[Len(q) + 1] = x
         /\ \A i \in 1..Len(q) : Append(q, x)[i] = q[i]
  BY Appended

(* An answer reaches at most one client, and then no thread has it any     *)
(* more; that it may be the wrong client makes it no less true.            *)
LEMMA ReplyStep ==
  ASSUME WireInv, ServerInv, NEW c \in Clients, Reply(c) \/ Refuse(c)
  PROVE  ServerInv'
<1>1. /\ pc[c] \in {"reply", "refuse"}
      /\ UNCHANGED <<frame, left, found, index, complete, holder, poisoned, up>>
  BY DEF Reply, Refuse, shared, world
<1>2. PICK l \in {"length", "close", "close again"} : pc' = [pc EXCEPT ![c] = l]
  BY DEF Reply, Refuse, Goto
<1>3. CASE replies' = replies
  BY <1>1, <1>2, <1>3, QuietStep DEF WireInv, Labels
<1>4. CASE replies' # replies
  <2> DEFINE e == Connection(c)
             n == Len(replies[e])
  <2>1. PICK r \in Replies :
          /\ Connection(c) # NoClient
          /\ replies' = [replies EXCEPT ![e] = Append(@, r)]
          /\ r.ok => r.of = frame[c] /\ r.found = found[c] /\ pc[c] = "reply"
    <3>1. /\ frame[c] \in AllFrames
          /\ found[c] \in Seq(Nat)
          /\ <<>> \in Seq(Nat)
      <4>1. frame[c] \in AllFrames /\ found[c] \in Seq(Nat)
        BY DEF WireInv, ServerInv, WorkType
      <4>2. <<>> \in Seq(Nat)
        BY EmptySeq
      <4>. QED
        BY <4>1, <4>2
    <3>2. CASE Reply(c)
      <4> DEFINE q == [of |-> frame[c], ok |-> frame[c].cmd # "malformed", found |-> found[c]]
      <4>1. SendOk(c, q) /\ pc[c] = "reply"
        BY <1>4, <3>2 DEF Reply
      <4>2. q \in Replies /\ q.of = frame[c] /\ q.found = found[c]
        BY <3>1 DEF Replies
      <4> HIDE DEF q
      <4>. QED
        BY <1>4, <4>1, <4>2 DEF SendOk
    <3>3. CASE Refuse(c)
      <4> DEFINE q == [of |-> frame[c], ok |-> FALSE, found |-> <<>>]
      <4>1. SendOk(c, q)
        BY <1>4, <3>3 DEF Refuse
      <4>2. q \in Replies /\ ~q.ok
        BY <3>1 DEF Replies
      <4> HIDE DEF q
      <4>. QED
        BY <1>4, <4>1, <4>2 DEF SendOk
    <3>. QED
      BY <3>2, <3>3
  <2>2. e \in Clients /\ replies' = [replies EXCEPT ![e] = Append(@, r)]
    BY <1>1, <2>1, SomeConnection
  <2>3. replies[e] \in Seq(Replies)
    BY <2>2 DEF ServerInv, WorkType
  <2>4. /\ Append(replies[e], r) \in Seq(Replies) /\ n \in Nat
        /\ Len(Append(replies[e], r)) = n + 1 /\ Append(replies[e], r)[n + 1] = r
        /\ \A i \in 1..n : Append(replies[e], r)[i] = replies[e][i]
    <3> HIDE DEF e
    <3>1. r \in Replies /\ replies[e] \in Seq(Replies)
      BY <2>1, <2>3
    <3>. QED
      BY <3>1, ReplyAppended DEF n
  <2> HIDE DEF e, n
  <2>5. replies' \in [Clients -> Seq(Replies)]
    BY <2>2, <2>4 DEF ServerInv, WorkType
  <2>6. ASSUME NEW d \in Clients, NEW i \in 1..Len(replies'[d])
        PROVE  \/ i \in 1..Len(replies[d]) /\ replies'[d][i] = replies[d][i]
               \/ d = e /\ i = n + 1 /\ replies'[d][i] = r
    <3>1. CASE d = e
      <4>1. replies'[d] = Append(replies[e], r)
        BY <2>2, <3>1 DEF ServerInv, WorkType
      <4>2. i \in 1..(n + 1)
        BY <2>4, <2>6, <4>1
      <4>3. n \in Nat
        BY <2>4
      <4>4. i \in 1..n \/ i = n + 1
        BY <4>2, <4>3, LastOrBefore
      <4>. QED
        BY <2>4, <3>1, <4>1, <4>4 DEF n
    <3>2. CASE d # e
      BY <2>2, <3>2 DEF ServerInv, WorkType
    <3>. QED
      BY <3>1, <3>2
  <2>7. r.ok => /\ r.of = frame[c] /\ r.found = found[c] /\ pc[c] = "reply"
    BY <2>1 DEF e
  <2>8. r.ok => Saw(r.of, r.found, complete) /\ Stored(r.of, r.found, index)
    BY <2>7 DEF ServerInv, Answers
  <2>9. IsId(r) => Told(c) /\ r.found = found[c]
    <3>1. ASSUME IsId(r) PROVE found[c] # <<>>
      <4>1. Len(found[c]) = 1
        BY <2>7, <2>8, <3>1 DEF IsId, Stored
      <4>2. found[c] \in Seq(Nat)
        BY DEF ServerInv, WorkType
      <4>. QED
        BY <4>1, <4>2, Single
    <3>. QED
      BY <2>7, <3>1 DEF IsId, Told
  <2>10. /\ pc'[c] = l /\ frame'[c] = frame[c] /\ found'[c] = found[c]
         /\ Waits(c)' /\ Works(c)' /\ Answers(c)' /\ ~Told(c)'
    BY <1>1, <1>2 DEF WireInv, Waits, Works, Answers, Told
  <2>11. ASSUME NEW d \in Clients, d # c
         PROVE  /\ pc'[d] = pc[d]
                /\ Waits(d)' /\ Works(d)' /\ Answers(d)'
                /\ Told(d)' => Told(d)
    <3>1. pc'[d] = pc[d]
      BY <1>2, <2>11 DEF WireInv
    <3>. QED
      BY <1>1, <3>1 DEF ServerInv, Waits, Works, Answers, Told
  <2>12. Replied'
    <3> SUFFICES ASSUME NEW d \in Clients, NEW i \in 1..Len(replies'[d]), replies'[d][i].ok
                 PROVE  /\ Saw(replies'[d][i].of, replies'[d][i].found, complete)
                        /\ Stored(replies'[d][i].of, replies'[d][i].found, index)
      BY <1>1 DEF Replied
    <3>. QED
      BY <2>6, <2>8 DEF ServerInv, Replied
  <2>20. \A x, y \in Clients : Told(x) /\ Told(y) /\ found[x] = found[y] => x = y
    BY DEF ServerInv, IdInv
  <2>21. \A x, y \in Clients : \A k \in 1..Len(replies[y]) :
           Told(x) /\ IsId(replies[y][k]) => replies[y][k].found # found[x]
    BY DEF ServerInv, IdInv
  <2>22. \A x, y \in Clients : \A k \in 1..Len(replies[x]), m \in 1..Len(replies[y]) :
           IsId(replies[x][k]) /\ IsId(replies[y][m]) /\ replies[x][k].found = replies[y][m].found
             => x = y /\ k = m
    BY DEF ServerInv, IdInv
  <2>13. ASSUME NEW d \in Clients, NEW b \in Clients, Told(d)', Told(b)', found'[d] = found'[b]
         PROVE  d = b
    <3>1. d # c /\ b # c
      BY <2>10, <2>13
    <3>. QED
      BY <1>1, <2>11, <2>13, <2>20, <3>1
  <2>14. ASSUME NEW d \in Clients, NEW b \in Clients, NEW i \in 1..Len(replies'[b]),
                Told(d)', IsId(replies'[b][i])
         PROVE  replies'[b][i].found # found'[d]
    <3>1. d # c /\ Told(d)
      BY <2>10, <2>11, <2>14
    <3>2. CASE i \in 1..Len(replies[b]) /\ replies'[b][i] = replies[b][i]
      BY <1>1, <2>14, <2>21, <3>1, <3>2
    <3>3. CASE replies'[b][i] = r
      BY <1>1, <2>9, <2>14, <2>20, <3>1, <3>3
    <3>. QED
      BY <2>6, <3>2, <3>3
  <2>15. ASSUME NEW d \in Clients, NEW b \in Clients,
                NEW i \in 1..Len(replies'[d]), NEW j \in 1..Len(replies'[b]),
                IsId(replies'[d][i]), IsId(replies'[b][j]),
                replies'[d][i].found = replies'[b][j].found
         PROVE  d = b /\ i = j
    <3>1. CASE /\ i \in 1..Len(replies[d]) /\ replies'[d][i] = replies[d][i]
               /\ j \in 1..Len(replies[b]) /\ replies'[b][j] = replies[b][j]
      <4>1. /\ IsId(replies[d][i]) /\ IsId(replies[b][j])
            /\ replies[d][i].found = replies[b][j].found
        BY <2>15, <3>1
      <4>2. \A k \in 1..Len(replies[d]), m \in 1..Len(replies[b]) :
              IsId(replies[d][k]) /\ IsId(replies[b][m])
                /\ replies[d][k].found = replies[b][m].found => d = b /\ k = m
        BY <2>22
      <4>. QED
        BY <3>1, <4>1, <4>2
    <3>2. CASE /\ i \in 1..Len(replies[d]) /\ replies'[d][i] = replies[d][i]
               /\ replies'[b][j] = r
      BY <2>9, <2>15, <2>21, <3>2
    <3>3. CASE /\ replies'[d][i] = r
               /\ j \in 1..Len(replies[b]) /\ replies'[b][j] = replies[b][j]
      BY <2>9, <2>15, <2>21, <3>3
    <3>4. CASE d = e /\ i = n + 1 /\ b = e /\ j = n + 1
      BY <3>4
    <3>. QED
      BY <2>6, <3>1, <3>2, <3>3, <3>4
  <2>16. IdInv'
    BY <2>13, <2>14, <2>15 DEF IdInv
  <2>17. WorkType'
    BY <1>1, <2>5 DEF ServerInv, WorkType
  <2>18. MutexInv'
    BY <1>1, <2>10, <2>11 DEF ServerInv, MutexInv
  <2>. QED
    BY <2>10, <2>11, <2>12, <2>16, <2>17, <2>18 DEF ServerInv
<1>. QED
  BY <1>3, <1>4

LEMMA ServerInit == Init => ServerInv
<1> SUFFICES ASSUME Init PROVE ServerInv
  OBVIOUS
<1>1. WorkType
  <2>1. left \in [Clients -> Seq(Vectors)] /\ found \in [Clients -> Seq(Nat)]
    BY DEF Init
  <2>2. replies \in [Clients -> Seq(Replies)]
    BY DEF Init
  <2>3. index \in Seq(Vectors) /\ complete \subseteq Nat
    BY DEF Init
  <2>4. holder \in Clients \cup {NoClient} /\ poisoned \in BOOLEAN
    BY DEF Init
  <2>. QED
    BY <2>1, <2>2, <2>3, <2>4 DEF WorkType
<1>2. MutexInv
  BY DEF Init, MutexInv
<1>3. \A c \in Clients : pc[c] = "none" /\ Len(replies[c]) = 0
  BY DEF Init
<1>4. \A c \in Clients : Waits(c) /\ Works(c) /\ Answers(c) /\ ~Told(c)
  BY <1>3 DEF Waits, Works, Answers, Told
<1>5. Replied /\ IdInv
  BY <1>3, <1>4 DEF Replied, IdInv
<1>. QED
  BY <1>1, <1>2, <1>4, <1>5 DEF ServerInv

LEMMA ServerStep == WireInv /\ ServerInv /\ [Next]_vars => ServerInv'
<1> SUFFICES ASSUME WireInv, ServerInv, [Next]_vars PROVE ServerInv'
  OBVIOUS
<1>0. pc \in [Clients -> Labels]
  BY DEF WireInv
<1>1. CASE UNCHANGED vars
  BY <1>1, StillStep DEF vars, net, thread, shared, world
<1>2. ASSUME NEW c \in Clients, Connect(c) \/ Leave(c) PROVE ServerInv'
  BY <1>2, StillStep DEF Connect, Leave, thread, shared, world
<1>3. ASSUME NEW c \in Clients, NEW f \in Frames, Request(c, f) PROVE ServerInv'
  BY <1>3, StillStep DEF Request, thread, shared, world
<1>4. CASE Accept
  <2>1. Head(backlog) \in Clients
    BY <1>4, HeadTail DEF Accept, WireInv
  <2>2. /\ pc' = [pc EXCEPT ![Head(backlog)] = "length"]
        /\ UNCHANGED <<frame, left, found, index, complete, holder, poisoned, replies, up>>
    BY <1>4 DEF Accept, Goto, net, shared, world
  <2>. QED
    BY <1>0, <2>1, <2>2, QuietStep DEF Labels
<1>5. ASSUME NEW c \in Clients, ReadFails(c) \/ Close(c) \/ CloseAgain(c) PROVE ServerInv'
  <2>1. UNCHANGED <<frame, left, found, index, complete, holder, poisoned, replies, up>>
    BY <1>5 DEF ReadFails, Close, CloseAgain, net, shared, world
  <2>2. PICK l \in {"close", "close again", "gone"} : pc' = [pc EXCEPT ![c] = l]
    BY <1>5 DEF ReadFails, Close, CloseAgain, Goto
  <2>. QED
    BY <1>0, <2>1, <2>2, QuietStep DEF Labels
<1>6. ASSUME NEW c \in Clients, ReadLength(c) PROVE ServerInv'
  <2>1. /\ UNCHANGED <<left, found, index, complete, holder, poisoned, replies, up>>
        /\ \A d \in Clients \ {c} : frame'[d] = frame[d]
    BY <1>6 DEF ReadLength, shared, world, WireInv
  <2>2. PICK l \in {"refuse", "body"} : pc' = [pc EXCEPT ![c] = l]
    BY <1>6 DEF ReadLength, Goto
  <2>. QED
    BY <1>0, <2>1, <2>2, QuietStep DEF Labels
<1>7. ASSUME NEW c \in Clients, ReadBody(c) PROVE ServerInv'
  <2>1. /\ UNCHANGED <<left, index, complete, holder, poisoned, replies, up>>
        /\ \A d \in Clients \ {c} : frame'[d] = frame[d]
        /\ found' = [found EXCEPT ![c] = <<>>]
    BY <1>7 DEF ReadBody, shared, world, WireInv
  <2>2. PICK l \in {"reply", "lock"} :
          /\ pc' = [pc EXCEPT ![c] = l]
          /\ l = "reply" => frame'[c].cmd \notin Seeing \cup Inserting
    BY <1>7 DEF ReadBody, Goto, Seeing, Inserting
  <2>3. found'[c] = <<>>
    BY <2>1 DEF ServerInv, WorkType
  <2>. QED
    BY <1>0, <2>1, <2>2, <2>3, QuietStep DEF Labels
<1>. QED
  BY <1>1, <1>2, <1>3, <1>4, <1>5, <1>6, <1>7, LockStep, AddStep, QueryStep, ReleaseStep,
     ReplyStep DEF Next, ThreadStep

(* Who has the Mutex, what it has found, and what was answered.            *)
THEOREM InvHolds == Spec => [](WireInv /\ ServerInv)
<1>1. Init => WireInv /\ ServerInv
  BY WireInit, ServerInit
<1>2. WireInv /\ ServerInv /\ [Next]_vars => (WireInv /\ ServerInv)'
  BY WireStep, ServerStep
<1>. QED
  BY <1>1, <1>2, PTL DEF Spec

(* An answer that some client has is one that is true of the server. *)
LEMMA ReceivedHolds ==
  ASSUME ServerInv, NEW cmds, NEW r \in Received(cmds)
  PROVE  /\ r \in Replies /\ r.of.cmd \in cmds
         /\ Saw(r.of, r.found, complete) /\ Stored(r.of, r.found, index)
<1>1. PICK c \in Clients : \E i \in DOMAIN replies[c] :
              r = replies[c][i] /\ r.ok /\ r.of.cmd \in cmds
  BY DEF Received
<1>2. replies[c] \in Seq(Replies)
  BY DEF ServerInv, WorkType
<1>3. PICK i \in 1..Len(replies[c]) : r = replies[c][i] /\ r.ok /\ r.of.cmd \in cmds
  BY <1>1, <1>2
<1>. QED
  BY <1>2, <1>3, ElementOfSeq DEF ServerInv, Replied

(* The ids that inserts were told are the places of their vectors, and no  *)
(* two are the same, whatever connections are mixed up.                    *)
THEOREM InsertIdsAreRight == Spec => []InsertIdsHold
<1>1. ServerInv => InsertIdsHold
  <2> SUFFICES ASSUME ServerInv PROVE InsertIdsHold
    OBVIOUS
  <2>1. \A r \in Received({"insert"}) : index[r.found[1] + 1] = r.of.vs[1]
    BY ReceivedHolds DEF Stored
  <2>2. \A c \in Clients : DOMAIN replies[c] = 1..Len(replies[c])
    BY DEF ServerInv, WorkType
  <2>3. ASSUME NEW c \in Clients, NEW d \in Clients,
               NEW i \in DOMAIN replies[c], NEW j \in DOMAIN replies[d],
               IsId(replies[c][i]), IsId(replies[d][j]),
               replies[c][i].found = replies[d][j].found
        PROVE  c = d /\ i = j
    <3>1. i \in 1..Len(replies[c]) /\ j \in 1..Len(replies[d])
      BY <2>2
    <3>2. IdInv
      BY DEF ServerInv
    <3>. QED
      BY <2>3, <3>1, <3>2 DEF IdInv
  <2>. QED
    BY <2>1, <2>3 DEF InsertIdsHold, IsId
<1>. QED
  BY <1>1, InvHolds, PTL

(* Nobody sees a part of an import, also not of one that panicked.         *)
THEOREM ImportsStayWhole == Spec => []ImportsAreWhole
<1>1. ServerInv => ImportsAreWhole
  <2> SUFFICES ASSUME ServerInv, NEW r \in Received({"search", "batch", "export"}),
                      NEW i \in DOMAIN r.found
               PROVE  r.found[i] \in complete
    BY DEF ImportsAreWhole
  <2>1. r.found \in Seq(Nat)
    BY ReceivedHolds DEF Replies
  <2>. QED
    BY <2>1, ReceivedHolds DEF Saw, Seeing
<1>. QED
  BY <1>1, InvHolds, PTL

(* A batch is answered from one state of the index, however long it is.    *)
THEOREM BatchesSeeOneState == Spec => []BatchSeesOneState
<1>1. ServerInv => BatchSeesOneState
  <2> SUFFICES ASSUME ServerInv, NEW r \in Received({"batch"}),
                      NEW i \in DOMAIN r.found, NEW j \in DOMAIN r.found
               PROVE  r.found[i] = r.found[j]
    BY DEF BatchSeesOneState
  <2>1. r.found \in Seq(Nat)
    BY ReceivedHolds DEF Replies
  <2>2. r.of.cmd \in Seeing /\ Saw(r.of, r.found, complete)
    BY ReceivedHolds DEF Seeing
  <2>3. i \in 1..Len(r.found) /\ j \in 1..Len(r.found)
    BY <2>1
  <2>. QED
    BY <2>2, <2>3 DEF Saw
<1>. QED
  BY <1>1, InvHolds, PTL

-----------------------------------------------------------------------------
(* The payloads. The lengths of the two formats differ by 5 modulo 4, and  *)
(* a usize wraps around at a multiple of 4: no value of any word makes     *)
(* them equal.                                                             *)

(* Division with remainder. *)
LEMMA DivMod ==
  ASSUME NEW a \in Nat, NEW b \in Nat \ {0}
  PROVE  a = b * (a \div b) + (a % b) /\ a \div b \in Nat /\ a % b \in 0..(b - 1)
OBVIOUS

(* The length an extended header asks for, wrapped around or not, is never *)
(* that of an old payload.                                                 *)
LEMMA LengthsDiffer ==
  ASSUME NEW m \in Nat, NEW k \in Nat
  PROVE  (21 + 4 * m) % Usize # 16 + 4 * k
<1>1. PICK u \in Nat : Usize = 4 * u
  BY UsizeAssumption
<1>2. Usize \in Nat \ {0}
  BY UsizeAssumption, WordAssumption
<1> DEFINE a == 21 + 4 * m
           r == a \div Usize
<1>3. r \in Nat /\ a = Usize * r + (a % Usize)
  <2>1. a \in Nat
    OBVIOUS
  <2> HIDE DEF a
  <2> QED
    BY <1>2, <2>1, DivMod
<1>4. Usize * r = 4 * (u * r) /\ u * r \in Nat
  BY <1>1, <1>3
<1> HIDE DEF r
<1> SUFFICES ASSUME a % Usize = 16 + 4 * k PROVE FALSE
  OBVIOUS
<1>5. 21 + 4 * m = 4 * (u * r) + (16 + 4 * k)
  BY <1>3, <1>4
<1> QED
  BY <1>4, <1>5

(* A product of words is a natural number. *)
LEMMA ProductNat ==
  ASSUME NEW dim \in Words, NEW queries \in Words
  PROVE  queries * dim \in Nat
BY WordAssumption DEF Words

(* The search parser recognises both formats. *)
LEMMA SearchParsed ==
  ASSUME NEW dim \in Words, NEW x \in Words, NEW y \in Words, NEW z \in Words
  PROVE  /\ ParseSearch(LegacySearch(dim, x, y, z)) = Parsed("legacy", dim, 1)
         /\ ParseSearch(ExtendedSearch(dim, x, y, z)) = Parsed("extended", dim, 1)
BY WordAssumption DEF Words, ParseSearch, LegacySearch, ExtendedSearch, Parsed

(* A length that fits in a frame is not changed by the wrap-around. *)
LEMMA ShortIsExact ==
  ASSUME NEW n \in Nat, n <= MaxPayload
  PROVE  n < Usize /\ n % Usize = n
BY UsizeAssumption, WordAssumption

(* The batch parser takes an extended payload for what it is, *)
LEMMA ExtendedBatchParsed ==
  ASSUME NEW dim \in Words, NEW queries \in Words, NEW x \in Words, NEW y \in Words,
         NEW prof \in Profiles,
         ExtendedBatch(dim, queries, x, y).len <= MaxPayload
  PROVE  ParseBatch(ExtendedBatch(dim, queries, x, y), prof)
           = Parsed("extended", dim, queries)
<1> DEFINE p == ExtendedBatch(dim, queries, x, y)
           n == queries * dim
<1>1. n \in Nat
  BY ProductNat
<1>2. p.len = 21 + 4 * n /\ p.at13 = dim /\ p.at17 = queries
  BY DEF ExtendedBatch
<1>3. Exact(21, dim, queries) = p.len
  BY <1>2 DEF Exact
<1> HIDE DEF n
<1>4. p.len \in Nat /\ p.len >= 21
  BY <1>1, <1>2
<1>5. ~Overflows(21, dim, queries) /\ Expected(21, dim, queries) = p.len
  BY <1>3, <1>4, ShortIsExact, UsizeAssumption DEF Overflows, Expected
<1> QED
  BY <1>2, <1>4, <1>5 DEF ParseBatch

(* and an old one too, unless the extended reading overflows in a build    *)
(* that checks for it.                                                     *)
LEMMA LegacyBatchParsed ==
  ASSUME NEW dim \in Words, NEW queries \in Words, NEW x \in Words, NEW y \in Words,
         NEW prof \in Profiles,
         LegacyBatch(dim, queries, x, y).len <= MaxPayload
  PROVE  ParseBatch(LegacyBatch(dim, queries, x, y), prof)
           \in {Parsed("legacy", dim, queries), Panicked}
<1> DEFINE p == LegacyBatch(dim, queries, x, y)
           n == queries * dim
<1>1. n \in Nat /\ y * x \in Nat
  BY ProductNat
<1>2. p.len = 16 + 4 * n /\ p.at8 = dim /\ p.at12 = queries /\ p.at13 = x /\ p.at17 = y
  BY DEF LegacyBatch
<1>3. Exact(16, dim, queries) = p.len
  BY <1>2 DEF Exact
<1> HIDE DEF n
<1>4. p.len \in Nat /\ p.len >= 16
  BY <1>1, <1>2
<1>5. ~Overflows(16, dim, queries) /\ Expected(16, dim, queries) = p.len
  BY <1>3, <1>4, ShortIsExact, UsizeAssumption DEF Overflows, Expected
<1>6. Expected(21, x, y) # p.len
  BY <1>1, <1>2, LengthsDiffer DEF Expected, Exact
<1> QED
  BY <1>2, <1>4, <1>5, <1>6 DEF ParseBatch

-----------------------------------------------------------------------------
(* What a payload on its way is, given what its client meant. *)
SearchSent ==
  \E dim, x, y, z \in Words :
    \/ payload = LegacySearch(dim, x, y, z) /\ meant = Parsed("legacy", dim, 1)
    \/ payload = ExtendedSearch(dim, x, y, z) /\ meant = Parsed("extended", dim, 1)

BatchSent ==
  /\ payload.len <= MaxPayload
  /\ \E dim, queries, x, y \in Words :
       \/ /\ payload = LegacyBatch(dim, queries, x, y)
          /\ meant = Parsed("legacy", dim, queries)
       \/ /\ payload = ExtendedBatch(dim, queries, x, y)
          /\ meant = Parsed("extended", dim, queries)

(* The inductive invariant: a payload that waits for its parser was built  *)
(* by one of the four encoders.                                            *)
PayloadInv ==
  /\ profile \in Profiles
  /\ command = "search" => SearchSent
  /\ command = "batch" => BatchSent
  /\ NeverMistaken
  /\ ExtendedIsAccepted

(* PayloadInv holds at first and is kept by every step of the server. *)
THEOREM PayloadInvHolds == PayloadSpec => []PayloadInv
<1>1. PayloadInit => PayloadInv
  BY DEF PayloadInit, PayloadInv, NeverMistaken, ExtendedIsAccepted
<1>2. PayloadInv /\ [PayloadNext]_payloadVars => PayloadInv'
  <2> SUFFICES ASSUME PayloadInv, [PayloadNext]_payloadVars PROVE PayloadInv'
    OBVIOUS
  <2>1. CASE SendSearch
    BY <2>1 DEF SendSearch, PayloadInv, SearchSent, NeverMistaken, ExtendedIsAccepted
  <2>2. CASE SendBatch
    BY <2>2 DEF SendBatch, PayloadInv, BatchSent, NeverMistaken, ExtendedIsAccepted
  <2>3. CASE ParseSearchSent
    <3>1. SearchSent
      BY <2>3 DEF ParseSearchSent, PayloadInv
    <3>2. answer' = meant
      BY <2>3, <3>1, SearchParsed DEF ParseSearchSent, SearchSent
    <3> QED
      BY <2>3, <3>2 DEF ParseSearchSent, PayloadInv, NeverMistaken, ExtendedIsAccepted
  <2>4. CASE ParseBatchSent
    <3>1. BatchSent /\ profile \in Profiles
      BY <2>4 DEF ParseBatchSent, PayloadInv
    <3>2. PICK dim, queries, x, y \in Words :
            \/ /\ payload = LegacyBatch(dim, queries, x, y)
               /\ meant = Parsed("legacy", dim, queries)
            \/ /\ payload = ExtendedBatch(dim, queries, x, y)
               /\ meant = Parsed("extended", dim, queries)
      BY <3>1 DEF BatchSent
    <3>3. CASE payload = LegacyBatch(dim, queries, x, y) /\ meant = Parsed("legacy", dim, queries)
      <4>1. answer' \in {meant, Panicked}
        BY <2>4, <3>1, <3>3, LegacyBatchParsed DEF ParseBatchSent, BatchSent
      <4>2. meant.format = "legacy"
        BY <3>3 DEF Parsed
      <4> QED
        BY <2>4, <4>1, <4>2 DEF ParseBatchSent, PayloadInv, NeverMistaken, ExtendedIsAccepted
    <3>4. CASE payload = ExtendedBatch(dim, queries, x, y) /\ meant = Parsed("extended", dim, queries)
      <4>1. answer' = meant
        BY <2>4, <3>1, <3>4, ExtendedBatchParsed DEF ParseBatchSent, BatchSent
      <4> QED
        BY <2>4, <4>1 DEF ParseBatchSent, PayloadInv, NeverMistaken, ExtendedIsAccepted
    <3> QED
      BY <3>2, <3>3, <3>4
  <2>5. CASE UNCHANGED payloadVars
    BY <2>5 DEF payloadVars, PayloadInv, SearchSent, BatchSent, NeverMistaken, ExtendedIsAccepted
  <2> QED
    BY <2>1, <2>2, <2>3, <2>4, <2>5 DEF PayloadNext
<1> QED
  BY <1>1, <1>2, PTL DEF PayloadSpec

(* parse_search_payload and parse_batch_search_payload never take one      *)
(* format for the other.                                                   *)
THEOREM FormatsAreDistinct == PayloadSpec => []NeverMistaken
<1>1. PayloadInv => NeverMistaken
  BY DEF PayloadInv
<1> QED
  BY <1>1, PayloadInvHolds, PTL

(* The extended format works in every build. *)
THEOREM ExtendedWorks == PayloadSpec => []ExtendedIsAccepted
<1>1. PayloadInv => ExtendedIsAccepted
  BY DEF PayloadInv
<1> QED
  BY <1>1, PayloadInvHolds, PTL
=============================================================================

--------------------------- MODULE HttpServerProofs ---------------------------
(***************************************************************************)
(* Theorems about HttpServer for any number of clients, runs, stops and    *)
(* requests of any length.                                                 *)
(***************************************************************************)
EXTENDS HttpServer, SequenceTheorems, WellFoundedInduction, NaturalsInduction, TLAPS

-----------------------------------------------------------------------------
(* The context. *)

(* A callback runs between set_gencb and the end of dispatch, and only the *)
(* thread in run frees a box.                                              *)
ContextInv == pc # "off" => gencb \in boxes

(* The box that a callback reads is alive, with any runs and connections   *)
(* that outlive them.                                                      *)
THEOREM ContextIsAlive == Spec => []ContextAlive
<1>1. Init => ContextInv
  BY DEF Init, ContextInv
<1>2. ContextInv /\ [Next]_vars => ContextInv'
  <2> SUFFICES ASSUME ContextInv, [Next]_vars PROVE ContextInv'
    OBVIOUS
  <2>1. CASE Run
    BY <2>1 DEF Run, ContextInv
  <2>2. CASE Return
    BY <2>2 DEF Return, ContextInv
  <2>3. CASE Dispatch \/ Top \/ Wake \/ Exit \/ AllProcessed
    BY <2>3 DEF ContextInv, Dispatch, Top, Wake, Exit, AllProcessed, Processing, loop
  <2>4. ASSUME NEW c \in Clients,
               Accept(c) \/ Write(c) \/ HangUp(c) \/ Oversized(c) \/ Callback(c)
        PROVE  ContextInv'
    <3>1. UNCHANGED <<pc, boxes, gencb>>
      BY <2>4 DEF Accept, Write, HangUp, Oversized, Callback
    <3>. QED
      BY <3>1 DEF ContextInv
  <2>5. CASE Bind \/ Share \/ Stop \/ Drop \/ UNCHANGED vars
    <3>1. UNCHANGED <<pc, boxes, gencb>>
      BY <2>5 DEF Bind, Share, Stop, Drop, vars, loop
    <3>. QED
      BY <3>1 DEF ContextInv
  <2>6. ASSUME NEW c \in Clients,
               Connect(c) \/ Leave(c) \/ Expire(c) \/ \E r \in Requests : Request(c, r)
        PROVE  ContextInv'
    BY <2>6 DEF ContextInv, Connect, Leave, Expire, Request, loop
  <2>. QED
    BY <2>1, <2>2, <2>3, <2>4, <2>5, <2>6 DEF Next, LoopStep
<1>3. ContextInv => ContextAlive
  BY DEF ContextInv, ContextAlive
<1>. QED
  BY <1>1, <1>2, <1>3, PTL DEF Spec

-----------------------------------------------------------------------------
(* The answers. *)

Statuses == {200, 204, 400, 404}
Answers == [of : Requests, status : Statuses, found : Nat]

(* An answer of the server is true of an index ix, whose lengths between   *)
(* requests are whole, element by element.                                 *)
Holds(a, ix, whole) ==
  a.status = 200 =>
    /\ a.found \in whole
    /\ Adds(a.of) =>
         /\ a.found + Len(a.of.vs) <= Len(ix)
         /\ \A i \in 1..Len(a.of.vs) : ix[a.found + i] = a.of.vs[i]

Truths == {a \in Answers : Holds(a, index, complete)}

(* What AnswersHold needs to be inductive: the answers that are not        *)
(* written yet are true as well, and the index is whole between requests.  *)
AnswerInv ==
  /\ index \in Seq(Vectors)
  /\ complete \subseteq Nat /\ 0 \in complete
  /\ up => Len(index) \in complete
  /\ inbox \in [Clients -> Seq(Requests)]
  /\ outbox \in [Clients -> Seq(Truths)] /\ got \in [Clients -> Seq(Truths)]

(* There is a first vector of another dimension, or none. *)
LEMMA FittingType ==
  ASSUME NEW vs \in Seq(Vectors)
  PROVE  Fitting(vs) \in Seq(Vectors)
<1> DEFINE Bad == {i \in 1..Len(vs) : vs[i] = Wrong}
           First(n) == /\ \A i \in 1..n : vs[i] # Wrong
                       /\ n < Len(vs) => vs[n + 1] = Wrong
<1>0. Len(vs) \in Nat
  OBVIOUS
<1>1. \E n \in 0..Len(vs) : First(n)
  <2>1. CASE Bad = {}
    <3>1. First(Len(vs)) /\ Len(vs) \in 0..Len(vs)
      BY <1>0, <2>1
    <3>. QED
      BY <3>1
  <2>2. CASE Bad # {}
    <3> DEFINE Less == {ss \in Nat \X Nat : ss[1] < ss[2]}
    <3>1. IsWellFoundedOn(Less, Nat)
      BY NatLessThanWellFounded DEF OpToRel
    <3>2. Bad \subseteq Nat
      BY <1>0
    <3> HIDE DEF Less, Bad
    <3>3. PICK m \in Bad : \A i \in Bad : ~(<<i, m>> \in Less)
      BY <2>2, <3>1, <3>2, WFMin
    <3>4. m \in Nat /\ \A i \in Bad : i >= m
      <4> SUFFICES ASSUME NEW i \in Bad PROVE m \in Nat /\ i >= m
        BY <3>2
      <4>1. i \in Nat /\ m \in Nat /\ <<i, m>> \notin Less
        BY <3>2, <3>3
      <4>. QED
        BY <4>1 DEF Less
    <3>5. m \in 1..Len(vs) /\ vs[m] = Wrong /\ \A i \in 1..(m - 1) : vs[i] # Wrong
      BY <1>0, <3>4 DEF Bad
    <3>6. m - 1 \in 0..Len(vs) /\ First(m - 1)
      BY <1>0, <3>5
    <3>. QED
      BY <3>6
  <2>. QED
    BY <2>1, <2>2
<1> HIDE DEF First
<1>2. PICK n \in 0..Len(vs) : Fitting(vs) = SubSeq(vs, 1, n)
  BY <1>1 DEF Fitting, First
<1>. QED
  BY <1>0, <1>2, SubSeqProperties

(* A sequence of requests stays one, and its head is one. *)
LEMMA AppendType ==
  ASSUME NEW S, NEW q \in Seq(S), NEW x \in S
  PROVE  Append(q, x) \in Seq(S)
  OBVIOUS

LEMMA HeadTail ==
  ASSUME NEW S, NEW q \in Seq(S), q # <<>>
  PROVE  Head(q) \in S /\ Tail(q) \in Seq(S)
  OBVIOUS

LEMMA SeqMono ==
  ASSUME NEW S, NEW T, S \subseteq T, NEW C, NEW f \in [C -> Seq(S)]
  PROVE  f \in [C -> Seq(T)]
<1> SUFFICES ASSUME NEW c \in C PROVE f[c] \in Seq(T)
  OBVIOUS
<1>1. f[c] \in Seq(S)
  OBVIOUS
<1>. QED
  BY <1>1

(* What follows a sequence does not change it. *)
LEMMA Concatenated ==
  ASSUME NEW S, NEW p \in Seq(S), NEW q \in Seq(S)
  PROVE  /\ p \o q \in Seq(S) /\ Len(p \o q) = Len(p) + Len(q)
         /\ Len(p) \in Nat /\ Len(q) \in Nat
         /\ \A i \in 1..Len(p) : (p \o q)[i] = p[i]
         /\ \A i \in 1..Len(q) : (p \o q)[Len(p) + i] = q[i]
  OBVIOUS

(* A segment is known by its elements. *)
LEMMA Segment ==
  ASSUME NEW S, NEW q \in Seq(S), NEW w \in Seq(S), NEW m \in Nat,
         m + Len(w) <= Len(q), \A i \in 1..Len(w) : q[m + i] = w[i]
  PROVE  SubSeq(q, m + 1, m + Len(w)) = w
<1> DEFINE s == SubSeq(q, m + 1, m + Len(w))
<1>1. Len(w) \in Nat /\ Len(q) \in Nat
  OBVIOUS
<1>2. \A i \in (m + 1)..(m + Len(w)) : q[i] \in S
  BY <1>1
<1>3. /\ s \in Seq(S) /\ Len(s) = Len(w)
      /\ \A i \in 1..Len(w) : s[i] = q[m + i]
  BY <1>1, <1>2, SubSeqProperties
<1> HIDE DEF s
<1>4. s = w
  BY <1>3, SeqEqual
<1>. QED
  BY <1>4 DEF s

(* Answers stay true while the index only grows. *)
LEMMA StillHolds ==
  ASSUME NEW a \in Answers, NEW ix, NEW grown, NEW whole, NEW more,
         Len(ix) \in Nat, Len(grown) \in Nat, Len(ix) <= Len(grown),
         \A i \in 1..Len(ix) : grown[i] = ix[i],
         whole \subseteq more, Holds(a, ix, whole)
  PROVE  Holds(a, grown, more)
<1> SUFFICES ASSUME a.status = 200
             PROVE  /\ a.found \in more
                    /\ Adds(a.of) =>
                         /\ a.found + Len(a.of.vs) <= Len(grown)
                         /\ \A i \in 1..Len(a.of.vs) : grown[a.found + i] = a.of.vs[i]
  BY DEF Holds
<1>1. a.of.vs \in Seq(Vectors) /\ Len(a.of.vs) \in Nat /\ a.found \in Nat
  BY RequestsAssumption DEF Answers
<1>3. a.found \in more
  BY DEF Holds
<1>4. ASSUME Adds(a.of) PROVE a.found + Len(a.of.vs) <= Len(grown)
  BY <1>1, <1>4 DEF Holds
<1>5. ASSUME Adds(a.of), NEW i \in 1..Len(a.of.vs)
      PROVE  grown[a.found + i] = a.of.vs[i]
  <2>1. a.found + Len(a.of.vs) <= Len(ix) /\ ix[a.found + i] = a.of.vs[i]
    BY <1>5 DEF Holds
  <2>2. a.found + i \in 1..Len(ix)
    BY <1>1, <2>1
  <2>. QED
    BY <2>1, <2>2
<1>. QED
  BY <1>3, <1>4, <1>5

(* The answer of a handler is true of the index that it leaves.            *)
LEMMA ReplyHolds ==
  ASSUME AnswerInv, up, NEW c \in Clients, NEW r \in Requests, Reply(c, r),
         r.route # "oversized"
  PROVE  /\ Answer(r, Status(r), Found(r)) \in Answers
         /\ Holds(Answer(r, Status(r), Found(r)), index', complete')
<1> DEFINE a == Answer(r, Status(r), Found(r))
<1>1. Len(index) \in Nat /\ Len(index) \in complete /\ 0 \in complete
  BY DEF AnswerInv
<1>2. Status(r) \in Statuses
  BY RequestsAssumption DEF Status, Statuses, Routes
<1>3. Found(r) \in Nat /\ Found(r) \in complete /\ Found(r) \in complete'
  BY <1>1 DEF Found, Reply
<1>4. a \in Answers /\ a.of = r /\ a.status = Status(r) /\ a.found = Found(r)
  BY <1>2, <1>3 DEF Answer, Answers
<1>5. ASSUME Adds(r)
      PROVE  /\ Found(r) + Len(r.vs) <= Len(index')
             /\ \A i \in 1..Len(r.vs) : index'[Found(r) + i] = r.vs[i]
  <2>1. r.vs \in Seq(Vectors) /\ index \in Seq(Vectors)
    BY RequestsAssumption DEF AnswerInv
  <2>2. index' = index \o r.vs /\ Found(r) = Len(index)
    BY <1>5 DEF Reply, Found
  <2>. QED
    BY <2>1, <2>2, Concatenated
<1> HIDE DEF a
<1>6. Holds(a, index', complete')
  BY <1>3, <1>4, <1>5 DEF Holds
<1>. QED
  BY <1>4, <1>6 DEF a

(* A callback answers truly, or the process ends. *)
LEMMA CallbackKeeps ==
  ASSUME AnswerInv, NEW c \in Clients, Callback(c)
  PROVE  AnswerInv'
<1> DEFINE r == Head(inbox[c])
<1>1. r \in Requests /\ r.vs \in Seq(Vectors) /\ inbox' \in [Clients -> Seq(Requests)]
  <2>1. inbox[c] \in Seq(Requests) /\ inbox[c] # <<>>
    BY DEF AnswerInv, Callback
  <2>2. Head(inbox[c]) \in Requests /\ Tail(inbox[c]) \in Seq(Requests)
    BY <2>1, HeadTail
  <2>. QED
    BY <2>2, RequestsAssumption DEF AnswerInv, Callback
<1>2. up /\ got' = got
  BY DEF Callback, Turn, Processing
<1>3. r.route # "oversized" /\ (Reply(c, r) \/ Panic(c, r))
  BY DEF Callback
<1> HIDE DEF r
<1>4. PICK vs \in Seq(Vectors) : index' = index \o vs
  <2>1. <<>> \in Seq(Vectors) /\ index \o <<>> = index
    BY DEF AnswerInv
  <2>. QED
    BY <1>1, <1>3, <2>1, FittingType DEF Reply, Panic
<1>5. /\ index' \in Seq(Vectors) /\ Len(index') \in Nat
      /\ Len(index) \in Nat /\ Len(index) <= Len(index')
      /\ \A i \in 1..Len(index) : index'[i] = index[i]
      /\ complete' \subseteq Nat /\ complete \subseteq complete'
      /\ up' => Len(index') \in complete'
  <2>1. /\ index' \in Seq(Vectors) /\ Len(index') = Len(index) + Len(vs)
        /\ Len(index) \in Nat /\ Len(vs) \in Nat
        /\ \A i \in 1..Len(index) : index'[i] = index[i]
    BY <1>4, Concatenated DEF AnswerInv
  <2>2. CASE Reply(c, r)
    <3>1. complete' = complete \cup {Len(index')}
      BY <2>2 DEF Reply
    <3>2. /\ Len(index') \in Nat /\ Len(index) <= Len(index') /\ complete \subseteq Nat
      BY <2>1 DEF AnswerInv
    <3>3. /\ complete' \subseteq Nat /\ complete \subseteq complete' /\ Len(index') \in complete'
      BY <3>1, <3>2
    <3>. QED
      BY <2>1, <3>2, <3>3
  <2>3. CASE Panic(c, r)
    <3>1. complete' = complete /\ ~up'
      BY <2>3 DEF Panic
    <3>. QED
      BY <2>1, <3>1 DEF AnswerInv
  <2>. QED
    BY <1>3, <2>2, <2>3
<1>6. Truths \subseteq Truths'
  <2> SUFFICES ASSUME NEW a \in Truths PROVE a \in Truths'
    OBVIOUS
  <2>1. a \in Answers /\ Holds(a, index, complete)
    BY DEF Truths
  <2>2. Holds(a, index', complete')
    BY <1>5, <2>1, StillHolds
  <2>. QED
    BY <2>1, <2>2 DEF Truths
<1>7. outbox \in [Clients -> Seq(Truths')] /\ got' \in [Clients -> Seq(Truths')]
  BY <1>2, <1>6, SeqMono DEF AnswerInv
<1>8. outbox' \in [Clients -> Seq(Truths')]
  <2>1. CASE Panic(c, r)
    BY <1>7, <2>1 DEF Panic
  <2>2. CASE Reply(c, r)
    <3> DEFINE a == Answer(r, Status(r), Found(r))
    <3>1. a \in Answers /\ Holds(a, index', complete')
      BY <1>1, <1>2, <1>3, <2>2, ReplyHolds
    <3>2. outbox' = [outbox EXCEPT ![c] = <<a>>]
      BY <2>2 DEF Reply
    <3> HIDE DEF a
    <3>3. <<a>> \in Seq(Truths')
      BY <3>1 DEF Truths
    <3>. QED
      BY <1>7, <3>2, <3>3
  <2>. QED
    BY <1>3, <2>1, <2>2
<1>. QED
  BY <1>1, <1>5, <1>7, <1>8 DEF AnswerInv

(* The answer that is written joins those the client has. *)
LEMMA WriteKeeps ==
  ASSUME AnswerInv, NEW c \in Clients, Write(c)
  PROVE  AnswerInv'
<1>1. UNCHANGED <<index, complete, up, inbox>> /\ outbox' = [outbox EXCEPT ![c] = <<>>]
  BY DEF Write, data
<1>2. Truths' = Truths
  BY <1>1 DEF Truths
<1>3. outbox' \in [Clients -> Seq(Truths)]
  BY <1>1 DEF AnswerInv
<1>4. got' \in [Clients -> Seq(Truths)]
  <2>1. CASE got' = got
    BY <2>1 DEF AnswerInv
  <2>2. CASE got' = [got EXCEPT ![c] = @ \o outbox[c]]
    <3>1. got[c] \o outbox[c] \in Seq(Truths)
      BY DEF AnswerInv
    <3>. QED
      BY <2>2, <3>1 DEF AnswerInv
  <2>. QED
    BY <2>1, <2>2 DEF Write
<1>. QED
  BY <1>1, <1>2, <1>3, <1>4 DEF AnswerInv

LEMMA AnswerInit == Init => AnswerInv
<1> SUFFICES ASSUME Init PROVE AnswerInv
  OBVIOUS
<1>1. index \in Seq(Vectors) /\ complete \subseteq Nat /\ 0 \in complete /\ Len(index) \in complete
  BY DEF Init
<1>2. /\ inbox \in [Clients -> Seq(Requests)]
      /\ outbox \in [Clients -> Seq(Truths)] /\ got \in [Clients -> Seq(Truths)]
  BY DEF Init
<1>. QED
  BY <1>1, <1>2 DEF AnswerInv

LEMMA AnswerStep == AnswerInv /\ [Next]_vars => AnswerInv'
<1> SUFFICES ASSUME AnswerInv, [Next]_vars PROVE AnswerInv'
  OBVIOUS
<1>1. ASSUME UNCHANGED <<index, complete, up, outbox, got>>,
             inbox' \in [Clients -> Seq(Requests)]
      PROVE  AnswerInv'
  BY <1>1 DEF AnswerInv, Truths
<1>2. CASE Bind \/ Share \/ Stop \/ Run \/ Drop \/ Dispatch \/ Top \/ Wake \/ Return
           \/ Exit \/ AllProcessed \/ UNCHANGED vars
  <2>1. UNCHANGED <<index, complete, up, inbox, outbox, got>>
    BY <1>2 DEF Bind, Share, Stop, Run, Drop, Dispatch, Top, Wake, Return, Exit,
                AllProcessed, vars, data, wire
  <2>. QED
    BY <1>1, <2>1 DEF AnswerInv
<1>3. ASSUME NEW c \in Clients, Connect(c) \/ Leave(c) \/ Expire(c) \/ Accept(c)
      PROVE  AnswerInv'
  <2>1. UNCHANGED <<index, complete, up, inbox, outbox, got>>
    BY <1>3 DEF Connect, Leave, Expire, Accept, data
  <2>. QED
    BY <1>1, <2>1 DEF AnswerInv
<1>4. ASSUME NEW c \in Clients, NEW r \in Requests, Request(c, r)
      PROVE  AnswerInv'
  <2>1. UNCHANGED <<index, complete, up, outbox, got>>
        /\ inbox' = [inbox EXCEPT ![c] = Append(@, r)]
    BY <1>4 DEF Request, data
  <2>2. Append(inbox[c], r) \in Seq(Requests)
    BY AppendType DEF AnswerInv
  <2>3. inbox' \in [Clients -> Seq(Requests)]
    BY <2>1, <2>2 DEF AnswerInv
  <2>. QED
    BY <1>1, <2>1, <2>3
<1>5. ASSUME NEW c \in Clients, HangUp(c) \/ Oversized(c)
      PROVE  AnswerInv'
  <2>1. UNCHANGED <<index, complete, up, outbox, got>>
        /\ inbox' = [inbox EXCEPT ![c] = <<>>]
    BY <1>5 DEF HangUp, Oversized, data
  <2>2. inbox' \in [Clients -> Seq(Requests)]
    BY <2>1 DEF AnswerInv
  <2>. QED
    BY <1>1, <2>1, <2>2
<1>. QED
  BY <1>2, <1>3, <1>4, <1>5, CallbackKeeps, WriteKeeps DEF Next, LoopStep

(* The places an insert was told hold its vectors for ever, and every      *)
(* answer saw the index as it was between two requests.                    *)
THEOREM AnswersAreTrue == Spec => []AnswersHold
<1>1. AnswerInv => AnswersHold
  <2> SUFFICES ASSUME AnswerInv PROVE AnswersHold
    OBVIOUS
  <2>1. ASSUME NEW a \in Received PROVE a \in Answers /\ Holds(a, index, complete)
    <3>1. PICK c \in Clients : \E i \in DOMAIN got[c] : a = got[c][i]
      BY <2>1 DEF Received
    <3>2. got[c] \in Seq(Truths)
      BY DEF AnswerInv
    <3>. QED
      BY <3>1, <3>2 DEF Truths
  <2>2. ASSUME NEW a \in Received, a.status = 200, Adds(a.of)
        PROVE  SubSeq(index, a.found + 1, a.found + Len(a.of.vs)) = a.of.vs
    <3>1. a.of.vs \in Seq(Vectors) /\ Len(a.of.vs) \in Nat /\ a.found \in Nat
      BY <2>1, RequestsAssumption DEF Answers
    <3>2. /\ a.found + Len(a.of.vs) <= Len(index)
          /\ \A i \in 1..Len(a.of.vs) : index[a.found + i] = a.of.vs[i]
      BY <2>1, <2>2 DEF Holds
    <3>. QED
      BY <3>1, <3>2, Segment DEF AnswerInv
  <2>. QED
    BY <2>1, <2>2 DEF AnswersHold, AnswerInv, Holds
<1>. QED
  BY <1>1, AnswerInit, AnswerStep, PTL DEF Spec
=============================================================================

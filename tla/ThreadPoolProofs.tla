--------------------------- MODULE ThreadPoolProofs ---------------------------
(***************************************************************************)
(* Theorems about ThreadPool for every number of callers and workers and   *)
(* every set of tasks, panicking ones included.                            *)
(***************************************************************************)
EXTENDS ThreadPool, FiniteSetTheorems, TLAPS

USE SizeAssumption, TasksAssumption, CallersAssumption, NoWorkerAssumption

(* A task that was sent is in the channel, with a worker, or done; and     *)
(* nothing else is.                                                        *)
TaskInv ==
  /\ \A k \in sent : k \in done \/ (\E i \in 1..Len(queue) : queue[i] = k)
                     \/ (\E w \in Busy : running[w] = k)
  /\ \A i \in 1..Len(queue) : queue[i] \in sent
  /\ \A w \in Busy : running[w] \in sent
  /\ \A w \in Workers : wpc[w] = "finish" => running[w] \in done
  /\ \A c \in Callers : pc[c] = "send" => sending[c] \in Tasks
  /\ \A c \in Callers : covered[c] \subseteq sent

(* join: no caller is in a call when the channel is closed, a worker ends  *)
(* only when it is closed and empty, and join waits for them in order.     *)
EndInv ==
  /\ ~open => \A c \in Callers : pc[c] \in {"idle", "panicked"}
  /\ \A w \in Workers : wpc[w] = "exited" => ~open /\ queue = <<>>
  /\ \A w \in 1..joined : wpc[w] = "exited"

Inv == PoolInv /\ TaskInv /\ EndInv

-----------------------------------------------------------------------------
(* The sets whose members CountExact counts are finite. *)
LEMMA Finite ==
  /\ IsFiniteSet(BeingSent) /\ IsFiniteSet(Busy)
  /\ Cardinality(BeingSent) \in Nat /\ Cardinality(Busy) \in Nat
<1>1. IsFiniteSet(Workers)
  BY FS_Interval DEF Workers
<1>2. IsFiniteSet(BeingSent) /\ IsFiniteSet(Busy)
  BY <1>1, FS_Subset DEF BeingSent, Busy
<1>. QED
  BY <1>2, FS_CardinalityType

(* A count of zero means that nobody has anything to finish. *)
LEMMA ZeroMeansIdle ==
  ASSUME PoolInv, TaskInv, active = 0 PROVE sent \subseteq done
<1>1. queue \in Seq(Tasks) /\ Len(queue) \in Nat
  BY DEF PoolInv, TypeOK
<1>2. Cardinality(Busy) = 0 /\ Len(queue) = 0
  BY <1>1, Finite DEF PoolInv, CountExact
<1>3. Busy = {}
  BY <1>2, Finite, FS_EmptySet
<1>. QED
  BY <1>2, <1>3 DEF TaskInv

(* The count follows the callers and workers that come and go. *)
LEMMA Enter ==
  ASSUME NEW S, IsFiniteSet(S), NEW x, x \notin S
  PROVE  Cardinality(S \cup {x}) = Cardinality(S) + 1
  BY FS_AddElement

LEMMA Leave ==
  ASSUME NEW S, IsFiniteSet(S), NEW x \in S
  PROVE  Cardinality(S \ {x}) = Cardinality(S) - 1 /\ Cardinality(S) >= 1
<1>1. Cardinality(S \ {x}) = Cardinality(S) - 1
  BY FS_RemoveElement
<1>2. Cardinality(S) \in Nat /\ Cardinality(S \ {x}) \in Nat
  BY FS_CardinalityType, FS_RemoveElement
<1>. QED
  BY <1>1, <1>2

LEMMA InvInit == Init => Inv
<1> SUFFICES ASSUME Init PROVE Inv
  OBVIOUS
<1>1. TypeOK
  <2>1. joined \in 0..NumWorkers /\ waits \in Nat /\ active \in Nat /\ queue \in Seq(Tasks)
    BY DEF Init
  <2>2. /\ pc \in [Callers -> {"idle", "send", "check", "asleep", "panicked"}]
        /\ sending \in [Callers -> Tasks \cup {NoTask}]
        /\ covered \in [Callers -> SUBSET Tasks]
    BY DEF Init
  <2>3. /\ wpc \in [Workers -> {"idle", "recv", "run", "finish", "exited", "dead"}]
        /\ running \in [Workers -> Tasks \cup {NoTask}]
    BY DEF Init
  <2>. QED
    BY <2>1, <2>2, <2>3 DEF Init, TypeOK
<1>4. TaskInv
  BY DEF Init, TaskInv, Busy
<1>5. EndInv
  BY DEF Init, EndInv
<1>2. BeingSent = {} /\ Busy = {} /\ active = 0 /\ Len(queue) = 0
  BY DEF Init, BeingSent, Busy
<1>3. CountExact
  BY <1>2, FS_EmptySet DEF CountExact
<1>. QED
  BY <1>1, <1>3, <1>4, <1>5 DEF Inv, PoolInv

-----------------------------------------------------------------------------
(* One lemma per action.                                                   *)
LEMMA CountStep == ASSUME Inv, NEW c \in Callers, Count(c) PROVE Inv'
<1> USE DEF Inv, PoolInv, TypeOK, Goto, worker
<1>1. PICK k \in Tasks : sending' = [sending EXCEPT ![c] = k]
  BY DEF Count
<1>2. /\ pc[c] = "idle" /\ pc' = [pc EXCEPT ![c] = "send"] /\ open
      /\ UNCHANGED <<queue, open, covered, wpc, running, sent, done, joined>>
      /\ active' = active + 1
  BY DEF Count
<1>3. TypeOK'
  BY <1>1, <1>2 DEF Count
<1>4. BeingSent' = BeingSent \cup {c} /\ c \notin BeingSent /\ Busy' = Busy
  BY <1>2 DEF BeingSent, Busy
<1>5. CountExact'
  BY <1>2, <1>4, Finite, Enter DEF CountExact
<1>6. TaskInv' /\ EndInv'
  BY <1>1, <1>2, <1>4 DEF TaskInv, EndInv
<1>. QED
  BY <1>3, <1>5, <1>6

LEMMA SendStep == ASSUME Inv, NEW c \in Callers, Send(c) PROVE Inv'
<1> USE DEF Inv, PoolInv, TypeOK, Goto, worker
<1>1. CASE ~poisoned /\ ReceiverAlive
  <2>1. /\ pc[c] = "send" /\ pc' = [pc EXCEPT ![c] = "idle"]
        /\ queue' = Append(queue, sending[c]) /\ sent' = sent \cup {sending[c]}
        /\ sending' = [sending EXCEPT ![c] = NoTask]
        /\ UNCHANGED <<open, active, covered, wpc, running, done, joined>>
    BY <1>1 DEF Send
  <2>2. sending[c] \in Tasks
    BY <2>1 DEF TaskInv
  <2>3. /\ queue' \in Seq(Tasks) /\ Len(queue') = Len(queue) + 1
        /\ queue'[Len(queue) + 1] = sending[c]
        /\ \A i \in 1..Len(queue) : queue'[i] = queue[i]
    BY <2>1, <2>2
  <2>4. TypeOK'
    BY <1>1, <2>1, <2>2, <2>3 DEF Send
  <2>5. BeingSent' = BeingSent \ {c} /\ c \in BeingSent /\ Busy' = Busy
    BY <2>1 DEF BeingSent, Busy
  <2>6. CountExact'
    <3>1. Cardinality(BeingSent') = Cardinality(BeingSent) - 1
      BY <2>5, Finite, Leave
    <3>. QED
      BY <2>1, <2>3, <2>5, <3>1, Finite DEF CountExact
  <2>7. TaskInv'
    <3>1. ASSUME NEW k \in sent'
          PROVE  k \in done' \/ (\E i \in 1..Len(queue') : queue'[i] = k)
                 \/ (\E w \in Busy' : running'[w] = k)
      <4>1. CASE k = sending[c]
        BY <2>3, <4>1
      <4>2. CASE k \in sent
        BY <2>1, <2>3, <2>5, <4>2 DEF TaskInv
      <4>. QED
        BY <2>1, <4>1, <4>2
    <3>2. \A i \in 1..Len(queue') : queue'[i] \in sent'
      BY <2>1, <2>3 DEF TaskInv
    <3>3. \A d \in Callers : pc'[d] = "send" => sending'[d] \in Tasks
      BY <2>1 DEF TaskInv
    <3>. QED
      BY <2>1, <2>5, <3>1, <3>2, <3>3 DEF TaskInv
  <2>8. EndInv'
    <3>1. open
      BY <2>1 DEF EndInv
    <3>. QED
      BY <2>1, <3>1 DEF EndInv
  <2>. QED
    BY <2>4, <2>6, <2>7, <2>8
<1>2. CASE ~(~poisoned /\ ReceiverAlive)
  <2>1. /\ pc[c] = "send" /\ pc' = [pc EXCEPT ![c] = "panicked"]
        /\ UNCHANGED <<queue, open, active, sending, covered, wpc, running, sent, done,
                       joined>>
    BY <1>2 DEF Send
  <2>2. BeingSent' = BeingSent /\ Busy' = Busy
    BY <2>1 DEF BeingSent, Busy
  <2>3. TypeOK'
    BY <1>2, <2>1 DEF Send
  <2>. QED
    BY <2>1, <2>2, <2>3 DEF CountExact, TaskInv, EndInv
<1>. QED
  BY <1>1, <1>2

(* A wait and a spurious wake-up. *)
LEMMA WaitStep ==
  ASSUME Inv, NEW c \in Callers, CallWait(c) \/ Check(c) \/ WakeSpuriously(c) PROVE Inv'
<1> USE DEF Inv, PoolInv, TypeOK, Goto, worker
<1>1. PICK l \in {"check", "asleep", "idle"} : pc' = [pc EXCEPT ![c] = l]
  BY DEF CallWait, Check, WakeSpuriously
<1>2. /\ pc[c] \in {"idle", "check", "asleep"} /\ (open \/ l = "idle" \/ pc[c] # "idle")
      /\ UNCHANGED <<queue, open, active, sending, wpc, running, sent, done, joined>>
  BY DEF CallWait, Check, WakeSpuriously
<1>3. covered' = covered \/ covered' = [covered EXCEPT ![c] = sent]
  BY DEF CallWait, Check, WakeSpuriously
<1>4. TypeOK'
  BY <1>1, <1>2, <1>3 DEF CallWait, Check, WakeSpuriously
<1>5. BeingSent' = BeingSent /\ Busy' = Busy
  BY <1>1, <1>2 DEF BeingSent, Busy
<1>6. TaskInv' /\ EndInv'
  BY <1>1, <1>2, <1>3, <1>5 DEF TaskInv, EndInv
<1>. QED
  BY <1>2, <1>4, <1>5, <1>6 DEF CountExact

-----------------------------------------------------------------------------
LEMMA ReceiveStep ==
  ASSUME Inv, NEW w \in Workers, LockReceiver(w) \/ Receive(w) PROVE Inv'
<1> USE DEF Inv, PoolInv, TypeOK, WorkerTo, caller
<1>1. CASE LockReceiver(w)
  <2>1. /\ wpc[w] = "idle" /\ wpc' = [wpc EXCEPT ![w] = "recv"]
        /\ UNCHANGED <<queue, open, active, pc, sending, covered, running, sent, done,
                       joined>>
    BY <1>1 DEF LockReceiver
  <2>2. TypeOK'
    BY <1>1, <2>1 DEF LockReceiver
  <2>3. BeingSent' = BeingSent /\ Busy' = Busy
    BY <2>1 DEF BeingSent, Busy
  <2>4. CountExact' /\ TaskInv'
    BY <2>1, <2>3 DEF CountExact, TaskInv
  <2>5. EndInv'
    BY <2>1 DEF EndInv, Workers
  <2>. QED
    BY <2>2, <2>4, <2>5
<1>2. CASE Receive(w) /\ wpc' = [wpc EXCEPT ![w] = "exited"]
  <2>1. /\ wpc[w] = "recv" /\ queue = <<>> /\ ~open
        /\ UNCHANGED <<queue, open, active, pc, sending, covered, running, sent, done,
                       joined>>
    BY <1>2 DEF Receive
  <2>2. TypeOK'
    BY <1>2, <2>1 DEF Receive
  <2>3. BeingSent' = BeingSent /\ Busy' = Busy
    BY <1>2, <2>1 DEF BeingSent, Busy
  <2>4. EndInv'
    BY <1>2, <2>1 DEF EndInv, Workers
  <2>. QED
    BY <1>2, <2>1, <2>2, <2>3, <2>4 DEF CountExact, TaskInv
<1>3. CASE Receive(w) /\ wpc' # [wpc EXCEPT ![w] = "exited"]
  <2>1. /\ wpc[w] = "recv" /\ wpc' = [wpc EXCEPT ![w] = "run"] /\ queue # <<>>
        /\ queue' = Tail(queue) /\ running' = [running EXCEPT ![w] = Head(queue)]
        /\ UNCHANGED <<open, active, pc, sending, covered, sent, done, joined>>
    BY <1>3 DEF Receive
  <2>2. /\ queue' \in Seq(Tasks) /\ Len(queue') = Len(queue) - 1 /\ Head(queue) = queue[1]
        /\ \A i \in 1..Len(queue') : queue'[i] = queue[i + 1] /\ i + 1 \in 1..Len(queue)
        /\ Len(queue) \in Nat \ {0} /\ Head(queue) \in Tasks
    BY <2>1
  <2>3. TypeOK'
    BY <1>3, <2>1, <2>2 DEF Receive
  <2>4. BeingSent' = BeingSent /\ Busy' = Busy \cup {w} /\ w \notin Busy
    BY <2>1 DEF BeingSent, Busy
  <2>5. CountExact'
    <3>1. Cardinality(Busy') = Cardinality(Busy) + 1
      BY <2>4, Finite, Enter
    <3>. QED
      BY <2>1, <2>2, <2>4, <3>1, Finite DEF CountExact
  <2>6. running'[w] = queue[1] /\ \A u \in Workers : u # w => running'[u] = running[u]
    BY <2>1, <2>2
  <2>7. TaskInv'
    <3>1. ASSUME NEW k \in sent'
          PROVE  k \in done' \/ (\E i \in 1..Len(queue') : queue'[i] = k)
                 \/ (\E u \in Busy' : running'[u] = k)
      <4>1. CASE k \in done
        BY <2>1, <4>1
      <4>2. CASE \E i \in 1..Len(queue) : queue[i] = k
        <5>1. PICK i \in 1..Len(queue) : queue[i] = k
          BY <4>2
        <5>2. CASE i = 1
          BY <2>4, <2>6, <5>1, <5>2
        <5>3. CASE i # 1
          <6>1. i - 1 \in 1..Len(queue') /\ queue'[i - 1] = k
            BY <2>2, <5>1, <5>3
          <6>. QED
            BY <6>1
        <5>. QED
          BY <5>2, <5>3
      <4>3. CASE \E u \in Busy : running[u] = k
        BY <2>4, <2>6, <4>3 DEF Busy
      <4>. QED
        BY <2>1, <4>1, <4>2, <4>3 DEF TaskInv
    <3>2. \A i \in 1..Len(queue') : queue'[i] \in sent'
      BY <2>1, <2>2 DEF TaskInv
    <3>3. queue[1] \in sent
      BY <2>2 DEF TaskInv
    <3>4. \A u \in Busy' : running'[u] \in sent'
      BY <2>1, <2>4, <2>6, <3>3 DEF TaskInv, Busy
    <3>5. \A u \in Workers : wpc'[u] = "finish" => running'[u] \in done'
      BY <2>1, <2>6 DEF TaskInv
    <3>. QED
      BY <2>1, <3>1, <3>2, <3>4, <3>5 DEF TaskInv
  <2>8. EndInv'
    BY <2>1 DEF EndInv, Workers
  <2>. QED
    BY <2>3, <2>5, <2>7, <2>8
<1>. QED
  BY <1>1, <1>2, <1>3

LEMMA RunStep == ASSUME Inv, NEW w \in Workers, Run(w) PROVE Inv'
<1> USE DEF Inv, PoolInv, TypeOK, WorkerTo, caller
<1>1. /\ wpc[w] = "run"
      /\ UNCHANGED <<queue, open, active, pc, sending, covered, running, sent, joined>>
      /\ \/ wpc' = [wpc EXCEPT ![w] = "dead"] /\ done' = done
         \/ wpc' = [wpc EXCEPT ![w] = "finish"] /\ done' = done \cup {running[w]}
  BY DEF Run
<1>2. running[w] \in sent
  BY <1>1 DEF TaskInv, Busy
<1>3. TypeOK'
  BY <1>1, <1>2 DEF Run
<1>4. BeingSent' = BeingSent /\ Busy' = Busy
  BY <1>1 DEF BeingSent, Busy
<1>5. EndInv'
  BY <1>1 DEF EndInv, Workers
<1>6. TaskInv'
  BY <1>1, <1>4 DEF TaskInv
<1>. QED
  BY <1>1, <1>3, <1>4, <1>5, <1>6 DEF CountExact

LEMMA FinishStep == ASSUME Inv, NEW w \in Workers, Finish(w) PROVE Inv'
<1> USE DEF Inv, PoolInv, TypeOK, WorkerTo
<1>1. /\ wpc[w] = "finish" /\ wpc' = [wpc EXCEPT ![w] = "idle"]
      /\ active' = active - 1
      /\ pc' = [c \in Callers |-> IF pc[c] = "asleep" THEN "check" ELSE pc[c]]
      /\ running' = [running EXCEPT ![w] = NoTask]
      /\ UNCHANGED <<queue, open, sending, covered, sent, done, joined>>
  BY DEF Finish
<1>2. BeingSent' = BeingSent /\ Busy' = Busy \ {w} /\ w \in Busy
  BY <1>1 DEF BeingSent, Busy
<1>3. Cardinality(Busy') = Cardinality(Busy) - 1 /\ Cardinality(Busy) >= 1
  BY <1>2, Finite, Leave
<1>4. Len(queue) \in Nat
  OBVIOUS
<1>5. CountExact' /\ active' \in Nat
  BY <1>1, <1>2, <1>3, <1>4, Finite DEF CountExact
<1>6. TypeOK'
  BY <1>1, <1>5 DEF Finish
<1>7. running[w] \in done
  BY <1>1 DEF TaskInv
<1>8. \A u \in Workers : u # w => running'[u] = running[u]
  BY <1>1
<1>9. TaskInv'
  <2>1. ASSUME NEW k \in sent'
        PROVE  k \in done' \/ (\E i \in 1..Len(queue') : queue'[i] = k)
               \/ (\E u \in Busy' : running'[u] = k)
    BY <1>1, <1>2, <1>7, <1>8 DEF TaskInv, Busy
  <2>. QED
    BY <1>1, <1>2, <1>8, <2>1 DEF TaskInv, Busy
<1>10. EndInv'
  BY <1>1 DEF EndInv, Workers
<1>. QED
  BY <1>5, <1>6, <1>9, <1>10

LEMMA EndStep == ASSUME Inv, Close \/ Join PROVE Inv'
<1> USE DEF Inv, PoolInv, TypeOK, caller, worker
<1>0. UNCHANGED <<queue, active, pc, sending, covered, wpc, running, sent, done>>
  BY DEF Close, Join
<1>1. UNCHANGED <<queue, active, pc, sending, covered, wpc, running, sent, done>> /\ TypeOK'
  <2>1. open' \in BOOLEAN /\ UNCHANGED <<poisoned, rx, waits>>
    BY DEF Close, Join
  <2>2. joined' = joined \/ (joined' = joined + 1 /\ joined < NumWorkers)
    BY DEF Close, Join
  <2>3. joined' \in 0..NumWorkers
    BY <2>2
  <2>. QED
    BY <1>0, <2>1, <2>3
<1>2. BeingSent' = BeingSent /\ Busy' = Busy
  BY <1>1 DEF BeingSent, Busy
<1>3. CountExact' /\ TaskInv'
  BY <1>1, <1>2 DEF CountExact, TaskInv
<1>4. EndInv'
  BY <1>1 DEF Close, Join, EndInv, Workers
<1>. QED
  BY <1>1, <1>3, <1>4

LEMMA InvStep == Inv /\ [Next]_vars => Inv'
<1> SUFFICES ASSUME Inv, [Next]_vars PROVE Inv'
  OBVIOUS
<1>1. CASE UNCHANGED vars
  BY <1>1 DEF vars, caller, worker, Inv, PoolInv, TypeOK, CountExact, TaskInv, EndInv,
     BeingSent, Busy
<1>2. CASE Next
  BY <1>2, CountStep, SendStep, WaitStep, ReceiveStep, RunStep, FinishStep, EndStep
     DEF Next, CallerStep, WorkerStep
<1>. QED
  BY <1>1, <1>2

-----------------------------------------------------------------------------
(* Where every task is and who is counted for it.                          *)
THEOREM InvHolds == Spec => []Inv
  BY InvInit, InvStep, PTL DEF Spec

(* The count is the number of tasks that somebody still has to finish, and *)
(* it never goes below zero.                                               *)
THEOREM CountIsExact == Spec => []PoolInv
<1>1. Inv => PoolInv
  BY DEF Inv
<1>. QED
  BY <1>1, InvHolds, PTL

(* wait returns only when all tasks it was called for have run.            *)
THEOREM WaitIsRight == Spec => WaitMeansDone
<1> DEFINE A == \A c \in Callers :
                  pc[c] \in {"check", "asleep"} /\ pc'[c] = "idle" => covered[c] \subseteq done
<1>1. Inv /\ [Next]_vars => A
  <2> SUFFICES ASSUME Inv, [Next]_vars, NEW c \in Callers,
                      pc[c] \in {"check", "asleep"}, pc'[c] = "idle"
               PROVE  covered[c] \subseteq done
    OBVIOUS
  <2>1. Check(c) /\ ~(active > 0)
    <3>1. pc \in [Callers -> {"idle", "send", "check", "asleep", "panicked"}]
      BY DEF Inv, PoolInv, TypeOK
    <3>2. ASSUME NEW d \in Callers,
                 Count(d) \/ CallWait(d) \/ WakeSpuriously(d) \/ CallerStep(d)
          PROVE  Check(c) /\ ~(active > 0)
      BY <3>1, <3>2 DEF Count, CallWait, WakeSpuriously, CallerStep, Send, Check, Goto
    <3>3. ASSUME NEW w \in Workers, WorkerStep(w) PROVE FALSE
      BY <3>1, <3>3 DEF WorkerStep, LockReceiver, Receive, Run, Finish, caller
    <3>4. CASE Close \/ Join \/ UNCHANGED vars
      BY <3>4 DEF Close, Join, vars, caller
    <3>. QED
      BY <3>2, <3>3, <3>4 DEF Next
  <2>2. active = 0
    BY <2>1 DEF Inv, PoolInv, TypeOK
  <2>3. covered[c] \subseteq sent
    BY DEF Inv, TaskInv
  <2>. QED
    BY <2>2, <2>3, ZeroMeansIdle DEF Inv
<1>. QED
  BY <1>1, InvHolds, PTL DEF Spec, WaitMeansDone

(* When join has returned, every task that was submitted has run.          *)
THEOREM JoinIsRight == Spec => []JoinMeansDone
<1>1. Inv => JoinMeansDone
  <2> SUFFICES ASSUME Inv, joined = NumWorkers PROVE sent = done
    BY DEF JoinMeansDone
  <2>1. \A w \in Workers : wpc[w] = "exited"
    BY DEF Inv, EndInv, Workers
  <2>2. queue = <<>> /\ Busy = {}
    <3>1. 1 \in Workers
      BY DEF Workers
    <3>. QED
      BY <2>1, <3>1 DEF Inv, EndInv, Busy
  <2>3. Len(queue) = 0 /\ done \subseteq sent
    BY <2>2 DEF Inv, PoolInv, TypeOK
  <2>4. ASSUME NEW k \in sent PROVE k \in done
    BY <2>2, <2>3 DEF Inv, TaskInv
  <2>. QED
    BY <2>3, <2>4
<1>. QED
  BY <1>1, InvHolds, PTL
=============================================================================

------------------------------ MODULE ThreadPool ------------------------------
(***************************************************************************)
(* ThreadPool of src/src/thread_pool.rs: callers put tasks on a channel,   *)
(* workers take turns at its receiving end, and a count of the active      *)
(* tasks under a mutex with a condition variable lets callers wait.        *)
(*                                                                         *)
(* A task that panics unwinds its worker, as it does in a debug or a test  *)
(* build (a release build aborts the process instead).                     *)
(***************************************************************************)
EXTENDS Integers, Sequences, FiniteSets

CONSTANTS
  Callers,      \* threads that share the pool
  NumWorkers,   \* `size` of new
  NoWorker,     \* the owner of the receiver's mutex when it is free
  Tasks,        \* the tasks, each submitted at most once
  Panicking,    \* those that panic
  NoTask,       \* a caller or a worker that has no task
  MaxWaits      \* bound: calls of wait

ASSUME SizeAssumption == NumWorkers \in Nat \ {0} /\ MaxWaits \in Nat
ASSUME TasksAssumption ==
  IsFiniteSet(Tasks) /\ Panicking \subseteq Tasks /\ NoTask \notin Tasks
ASSUME CallersAssumption == IsFiniteSet(Callers)
ASSUME NoWorkerAssumption == NoWorker \notin 1..NumWorkers

VARIABLES
  queue,        \* the channel
  open,         \* the sender was not dropped
  poisoned,     \* the sender's mutex is poisoned
  active,       \* the count, and
  pc,           \* where each caller is,
  sending,      \* the task it submits,
  covered,      \* the tasks that were submitted when it called wait
  rx,           \* the worker that holds the receiver's mutex
  wpc,          \* where each worker is
  running,      \* and the task it runs
  sent, done,   \* the tasks put on the channel, and those that ran to their end
  joined,       \* how many workers join has waited for, in their order
  waits         \* how much of MaxWaits is used

caller == <<pc, sending, covered>>
worker == <<rx, wpc, running>>
vars == <<queue, open, poisoned, active, caller, worker, sent, done, joined, waits>>

Workers == 1..NumWorkers

Goto(c, label) == pc' = [pc EXCEPT ![c] = label]
WorkerTo(w, label) == wpc' = [wpc EXCEPT ![w] = label]

(* A worker owns a share of the receiver until its thread ends. *)
ReceiverAlive == \E w \in Workers : wpc[w] \notin {"exited", "dead"}

-----------------------------------------------------------------------------
(* execute: the count goes up before the task can be taken. *)
Count(c) ==
  /\ open /\ pc[c] = "idle"
  /\ \E k \in Tasks \ (sent \cup {sending[x] : x \in Callers}) :
        sending' = [sending EXCEPT ![c] = k]
  /\ active' = active + 1
  /\ Goto(c, "send")
  /\ UNCHANGED <<queue, open, poisoned, covered, worker, sent, done, joined, waits>>

(* Then the task is sent, under the sender's mutex. send fails, and its    *)
(* unwrap() panics with the mutex held, when every worker is gone.         *)
Send(c) ==
  /\ pc[c] = "send"
  /\ IF ~poisoned /\ ReceiverAlive
     THEN /\ queue' = Append(queue, sending[c])
          /\ sent' = sent \cup {sending[c]}
          /\ sending' = [sending EXCEPT ![c] = NoTask]
          /\ Goto(c, "idle")
          /\ UNCHANGED poisoned
     ELSE /\ poisoned' = TRUE
          /\ Goto(c, "panicked")
          /\ UNCHANGED <<queue, sent, sending>>
  /\ UNCHANGED <<open, active, covered, worker, done, joined, waits>>

(* wait: return at once when nothing is active, else sleep until notified. *)
CallWait(c) ==
  /\ open /\ pc[c] = "idle" /\ waits < MaxWaits
  /\ covered' = [covered EXCEPT ![c] = sent]
  /\ Goto(c, "check")
  /\ waits' = waits + 1
  /\ UNCHANGED <<queue, open, poisoned, active, sending, worker, sent, done, joined>>

(* The count is read under its mutex, which the sleep gives up atomically. *)
Check(c) ==
  /\ pc[c] = "check"
  /\ Goto(c, IF active > 0 THEN "asleep" ELSE "idle")
  /\ UNCHANGED <<queue, open, poisoned, active, sending, covered, worker, sent,
                 done, joined, waits>>

(* A condition variable may wake a thread for no reason. *)
WakeSpuriously(c) ==
  /\ pc[c] = "asleep"
  /\ Goto(c, "check")
  /\ UNCHANGED <<queue, open, poisoned, active, sending, covered, worker, sent,
                 done, joined, waits>>

-----------------------------------------------------------------------------
(* A worker's loop: take the receiver's mutex, *)
LockReceiver(w) ==
  /\ wpc[w] = "idle" /\ rx = NoWorker
  /\ rx' = w
  /\ WorkerTo(w, "recv")
  /\ UNCHANGED <<queue, open, poisoned, active, caller, running, sent, done,
                 joined, waits>>

(* Variant: a worker ends as soon as the channel is closed. *)
ReceiveUntilClosed(w) ==
  /\ wpc[w] = "recv"
  /\ IF open
     THEN /\ queue # <<>>
          /\ queue' = Tail(queue)
          /\ running' = [running EXCEPT ![w] = Head(queue)]
          /\ WorkerTo(w, "run")
     ELSE WorkerTo(w, "exited") /\ UNCHANGED <<queue, running>>
  /\ rx' = NoWorker
  /\ UNCHANGED <<open, poisoned, active, caller, sent, done, joined, waits>>

(* hold it until a task comes or the channel is closed and empty, *)
Receive(w) ==
  /\ wpc[w] = "recv"
  /\ \/ /\ queue # <<>>
        /\ queue' = Tail(queue)
        /\ running' = [running EXCEPT ![w] = Head(queue)]
        /\ WorkerTo(w, "run")
     \/ /\ queue = <<>> /\ ~open
        /\ WorkerTo(w, "exited")
        /\ UNCHANGED <<queue, running>>
  /\ rx' = NoWorker
  /\ UNCHANGED <<open, poisoned, active, caller, sent, done, joined, waits>>

(* run the task, which may panic, *)
Run(w) ==
  /\ wpc[w] = "run"
  /\ IF running[w] \in Panicking
     THEN WorkerTo(w, "dead") /\ UNCHANGED done
     ELSE WorkerTo(w, "finish") /\ done' = done \cup {running[w]}
  /\ UNCHANGED <<queue, open, poisoned, active, caller, rx, running, sent,
                 joined, waits>>

(* Variant: notify_one. *)
FinishNotifyOne(w) ==
  /\ wpc[w] = "finish"
  /\ active' = active - 1
  /\ \/ \E c \in Callers : pc[c] = "asleep" /\ Goto(c, "check")
     \/ (\A c \in Callers : pc[c] # "asleep") /\ UNCHANGED pc
  /\ running' = [running EXCEPT ![w] = NoTask]
  /\ WorkerTo(w, "idle")
  /\ UNCHANGED <<queue, open, poisoned, sending, covered, rx, sent, done, joined,
                 waits>>

(* Variant: a caller that is woken does not look at the count again. *)
FinishEndsWaits(w) ==
  /\ wpc[w] = "finish"
  /\ active' = active - 1
  /\ pc' = [c \in Callers |-> IF pc[c] = "asleep" THEN "idle" ELSE pc[c]]
  /\ running' = [running EXCEPT ![w] = NoTask]
  /\ WorkerTo(w, "idle")
  /\ UNCHANGED <<queue, open, poisoned, sending, covered, rx, sent, done, joined,
                 waits>>

(* Variant: the count goes down only for a caller that waits. *)
FinishOnlyIfAwaited(w) ==
  /\ wpc[w] = "finish"
  /\ active' = IF \E c \in Callers : pc[c] = "asleep" THEN active - 1 ELSE active
  /\ pc' = [c \in Callers |-> IF pc[c] = "asleep" THEN "check" ELSE pc[c]]
  /\ running' = [running EXCEPT ![w] = NoTask]
  /\ WorkerTo(w, "idle")
  /\ UNCHANGED <<queue, open, poisoned, sending, covered, rx, sent, done, joined,
                 waits>>

(* and, at the end of the closure execute wrapped it in, lower the count   *)
(* and wake every caller that waits.                                       *)
Finish(w) ==
  /\ wpc[w] = "finish"
  /\ active' = active - 1
  /\ pc' = [c \in Callers |-> IF pc[c] = "asleep" THEN "check" ELSE pc[c]]
  /\ running' = [running EXCEPT ![w] = NoTask]
  /\ WorkerTo(w, "idle")
  /\ UNCHANGED <<queue, open, poisoned, sending, covered, rx, sent, done, joined,
                 waits>>

-----------------------------------------------------------------------------
(* join takes the pool itself, so no caller is using it: drop the sender,  *)
Close ==
  /\ open /\ \A c \in Callers : pc[c] \in {"idle", "panicked"}
  /\ open' = FALSE
  /\ UNCHANGED <<queue, poisoned, active, caller, worker, sent, done, joined, waits>>

(* and wait for the workers one by one; a dead one's unwrap() ends it.     *)
Join ==
  /\ ~open /\ joined < NumWorkers
  /\ wpc[joined + 1] = "exited"
  /\ joined' = joined + 1
  /\ UNCHANGED <<queue, open, poisoned, active, caller, worker, sent, done, waits>>

-----------------------------------------------------------------------------
Init ==
  /\ queue = <<>> /\ open = TRUE /\ poisoned = FALSE /\ active = 0
  /\ pc = [c \in Callers |-> "idle"]
  /\ sending = [c \in Callers |-> NoTask]
  /\ covered = [c \in Callers |-> {}]
  /\ rx = NoWorker
  /\ wpc = [w \in Workers |-> "idle"]
  /\ running = [w \in Workers |-> NoTask]
  /\ sent = {} /\ done = {} /\ joined = 0 /\ waits = 0

WorkerStep(w) == LockReceiver(w) \/ Receive(w) \/ Run(w) \/ Finish(w)
CallerStep(c) == Send(c) \/ Check(c)

Next ==
  \/ \E c \in Callers : Count(c) \/ CallWait(c) \/ WakeSpuriously(c) \/ CallerStep(c)
  \/ \E w \in Workers : WorkerStep(w)
  \/ Close \/ Join

Spec == Init /\ [][Next]_vars

(* The OS runs the workers, and the callers that are inside a call.        *)
FairSpec ==
  /\ Spec
  /\ \A w \in Workers : WF_vars(WorkerStep(w))
  /\ \A c \in Callers : WF_vars(CallerStep(c))
  /\ WF_vars(Join)

-----------------------------------------------------------------------------
InQueue == {queue[i] : i \in 1..Len(queue)}
BeingSent == {c \in Callers : pc[c] \in {"send", "panicked"}}
Busy == {w \in Workers : wpc[w] \in {"run", "finish", "dead"}}

(* Every variable has its type; the count never goes below zero, where a   *)
(* usize would overflow.                                                   *)
TypeOK ==
  /\ queue \in Seq(Tasks) /\ open \in BOOLEAN /\ poisoned \in BOOLEAN
  /\ active \in Nat
  /\ pc \in [Callers -> {"idle", "send", "check", "asleep", "panicked"}]
  /\ sending \in [Callers -> Tasks \cup {NoTask}]
  /\ covered \in [Callers -> SUBSET Tasks]
  /\ rx \in Workers \cup {NoWorker}
  /\ wpc \in [Workers -> {"idle", "recv", "run", "finish", "exited", "dead"}]
  /\ running \in [Workers -> Tasks \cup {NoTask}]
  /\ sent \subseteq Tasks /\ done \subseteq sent
  /\ joined \in 0..NumWorkers /\ waits \in Nat

(* The count is the number of tasks somebody still has to finish: those    *)
(* counted but not yet sent, those in the channel, those being run, and    *)
(* those whose panic took their worker along.                              *)
CountExact ==
  active = Cardinality(BeingSent) + Len(queue) + Cardinality(Busy)

(* wait returns only when every task that execute had taken before it was  *)
(* called has run to its end.                                              *)
WaitMeansDone ==
  [][\A c \in Callers :
       pc[c] \in {"check", "asleep"} /\ pc'[c] = "idle" => covered[c] \subseteq done]_vars

(* When join has returned, every task that was submitted has run: closing  *)
(* the channel drops none of those still in it.                            *)
JoinMeansDone == joined = NumWorkers => sent = done

(* The count and the types. *)
PoolInv == TypeOK /\ CountExact

Panicked == \E w \in Workers : wpc[w] = "dead"

(* Every wait returns, if no task panics: no wake-up is lost between the   *)
(* look at the count and the sleep, or to another waiter.                  *)
WaitReturns == \A c \in Callers : pc[c] = "check" ~> pc[c] = "idle" \/ Panicked

(* join returns, with all the workers gone, if no task panics.             *)
JoinReturns == ~open ~> joined = NumWorkers \/ Panicked

(* Both: whoever waits for the pool is let go.                             *)
CallersReturn == WaitReturns /\ JoinReturns
=============================================================================

----------------------------- MODULE ThreadPool -----------------------------
(***************************************************************************)
(* ThreadPool (src/Common/ServerComm/ThreadPool.cpp): worker threads that  *)
(* take tasks from a bounded queue guarded by one mutex and two condition  *)
(* variables.                                                              *)
(*                                                                         *)
(* A critical section is one step: it ends in unlock or in a wait, which   *)
(* releases the mutex.  The reads outside the mutex, of m_bRunning in      *)
(* ThreadFunc and of m_vThreads in Run, are steps of their own.  A wait    *)
(* may also return spuriously.                                             *)
(***************************************************************************)
EXTENDS Naturals, Sequences, FiniteSets

CONSTANTS
    Workers,        \* the threads Start creates
    Producers,      \* the threads that call Run
    Tasks,          \* the tasks they submit, each once
    NoTask,         \* an empty std::function
    MaxQueueSize    \* m_nMaxQueueSize, 0 for unbounded

ASSUME ThreadPoolAssumption ==
    /\ NoTask \notin Tasks
    /\ MaxQueueSize \in Nat
    /\ Workers \cap Producers = {}

VARIABLES
    owner,          \* "starting", "started" or "stopped": the thread that owns the pool
    m_vThreads,
    m_bRunning,
    m_dTaskQueue,
    notEmpty,       \* the threads waiting on m_NotEmptyCond
    notFull,        \* the threads waiting on m_NotFullCond
    pc,             \* where each thread is
    task,           \* the task a thread is submitting or executing
    submitted,      \* tasks some producer has called Run with
    executions      \* the executions of each task, finished ones

vars == <<owner, m_vThreads, m_bRunning, m_dTaskQueue, notEmpty, notFull, pc, task,
          submitted, executions>>

Threads == Workers \cup Producers

Init ==
    /\ owner = "starting"
    /\ m_vThreads = {}
    /\ m_bRunning = FALSE
    /\ m_dTaskQueue = <<>>
    /\ notEmpty = {}
    /\ notFull = {}
    /\ pc = [x \in Threads |-> IF x \in Workers THEN "unborn" ELSE "idle"]
    /\ task = [x \in Threads |-> NoTask]
    /\ submitted = {}
    /\ executions = [t \in Tasks |-> 0]

IsFull_OneMore ==               \* slip: > for >=
    MaxQueueSize > 0 /\ Len(m_dTaskQueue) > MaxQueueSize

IsFull == MaxQueueSize > 0 /\ Len(m_dTaskQueue) >= MaxQueueSize

-----------------------------------------------------------------------------
(* Start creates the threads one by one; each runs at once. *)
StartThread(w) ==
    /\ owner = "starting"
    /\ pc[w] = "unborn"
    /\ pc' = [pc EXCEPT ![w] = "loop"]
    /\ m_vThreads' = m_vThreads \cup {w}
    /\ UNCHANGED <<owner, m_bRunning, m_dTaskQueue, notEmpty, notFull, task, submitted, executions>>

(* m_bRunning = true comes after the last thread was created. *)
StartReturns ==
    /\ owner = "starting"
    /\ m_vThreads = Workers
    /\ owner' = "started"
    /\ m_bRunning' = TRUE
    /\ UNCHANGED <<m_vThreads, m_dTaskQueue, notEmpty, notFull, pc, task, submitted, executions>>

(* Stop wakes the workers, not the producers, and forgets the threads      *)
(* without joining them.                                                   *)
Stop ==
    /\ owner = "started"
    /\ owner' = "stopped"
    /\ m_bRunning' = FALSE
    /\ m_vThreads' = {}
    /\ notEmpty' = {}
    /\ UNCHANGED <<m_dTaskQueue, notFull, pc, task, submitted, executions>>

-----------------------------------------------------------------------------
(* Run(t) up to its test of m_vThreads: without threads the caller         *)
(* executes the task itself.                                               *)
RunCalled(p, t) ==
    /\ owner # "starting"
    /\ pc[p] = "idle"
    /\ t \notin submitted
    /\ submitted' = submitted \cup {t}
    /\ IF m_vThreads = {}
       THEN /\ executions' = [executions EXCEPT ![t] = @ + 1]
            /\ UNCHANGED <<pc, task>>
       ELSE /\ pc' = [pc EXCEPT ![p] = "put"]
            /\ task' = [task EXCEPT ![p] = t]
            /\ UNCHANGED executions
    /\ UNCHANGED <<owner, m_vThreads, m_bRunning, m_dTaskQueue, notEmpty, notFull>>

(* The critical section of Run: wait while the queue is full, or push and  *)
(* notify all.                                                             *)
PutWaits(p) ==
    /\ pc[p] = "put" /\ p \notin notFull
    /\ IsFull
    /\ notFull' = notFull \cup {p}
    /\ UNCHANGED <<owner, m_vThreads, m_bRunning, m_dTaskQueue, notEmpty, pc, task, submitted, executions>>

NotifyNotEmpty_Not == UNCHANGED notEmpty        \* slip: no notification after the push

NotifyNotEmpty == notEmpty' = {}

Put(p) ==
    /\ pc[p] = "put" /\ p \notin notFull
    /\ ~IsFull
    /\ m_dTaskQueue' = Append(m_dTaskQueue, task[p])
    /\ NotifyNotEmpty
    /\ pc' = [pc EXCEPT ![p] = "idle"]
    /\ task' = [task EXCEPT ![p] = NoTask]
    /\ UNCHANGED <<owner, m_vThreads, m_bRunning, notFull, submitted, executions>>

-----------------------------------------------------------------------------
(* ThreadFunc: while (m_bRunning). *)
TestRunning(w) ==
    /\ pc[w] = "loop"
    /\ pc' = [pc EXCEPT ![w] = IF m_bRunning THEN "take" ELSE "exited"]
    /\ UNCHANGED <<owner, m_vThreads, m_bRunning, m_dTaskQueue, notEmpty, notFull, task, submitted, executions>>

(* The critical section of TaskTake: wait, take the first task, or return  *)
(* an empty one, which ThreadFunc does not call.                           *)
TakeWaits(w) ==
    /\ pc[w] = "take" /\ w \notin notEmpty
    /\ m_dTaskQueue = <<>> /\ m_bRunning
    /\ notEmpty' = notEmpty \cup {w}
    /\ UNCHANGED <<owner, m_vThreads, m_bRunning, m_dTaskQueue, notFull, pc, task, submitted, executions>>

NotifyNotFull_Not == UNCHANGED notFull          \* slip: no notification after the pop

NotifyNotFull == notFull' = {}

PopFront_Not == UNCHANGED m_dTaskQueue          \* slip: front() without pop_front()

PopFront == m_dTaskQueue' = Tail(m_dTaskQueue)

TaskTake(w) ==
    /\ pc[w] = "take" /\ w \notin notEmpty
    /\ m_dTaskQueue # <<>>
    /\ task' = [task EXCEPT ![w] = Head(m_dTaskQueue)]
    /\ PopFront
    /\ NotifyNotFull
    /\ pc' = [pc EXCEPT ![w] = "execute"]
    /\ UNCHANGED <<owner, m_vThreads, m_bRunning, notEmpty, submitted, executions>>

TakeNothing(w) ==
    /\ pc[w] = "take" /\ w \notin notEmpty
    /\ m_dTaskQueue = <<>> /\ ~m_bRunning
    /\ pc' = [pc EXCEPT ![w] = "loop"]
    /\ UNCHANGED <<owner, m_vThreads, m_bRunning, m_dTaskQueue, notEmpty, notFull, task, submitted, executions>>

ExecuteTask(w) ==
    /\ pc[w] = "execute"
    /\ executions' = [executions EXCEPT ![task[w]] = @ + 1]
    /\ task' = [task EXCEPT ![w] = NoTask]
    /\ pc' = [pc EXCEPT ![w] = "loop"]
    /\ UNCHANGED <<owner, m_vThreads, m_bRunning, m_dTaskQueue, notEmpty, notFull, submitted>>

(* A wait may return without a notification. *)
SpuriousWake(x) ==
    /\ x \in notEmpty \cup notFull
    /\ notEmpty' = notEmpty \ {x}
    /\ notFull' = notFull \ {x}
    /\ UNCHANGED <<owner, m_vThreads, m_bRunning, m_dTaskQueue, pc, task, submitted, executions>>

WorkerStep(w) ==
    \/ TestRunning(w)
    \/ TakeWaits(w)
    \/ TaskTake(w)
    \/ TakeNothing(w)
    \/ ExecuteTask(w)

ProducerStep(p) == PutWaits(p) \/ Put(p)

Next ==
    \/ \E w \in Workers : StartThread(w)
    \/ StartReturns
    \/ Stop
    \/ \E p \in Producers, t \in Tasks : RunCalled(p, t)
    \/ \E p \in Producers : ProducerStep(p)
    \/ \E w \in Workers : WorkerStep(w)
    \/ \E x \in Threads : SpuriousWake(x)

Spec == Init /\ [][Next]_vars

(* Threads that can run do run; that the mutex is granted to a woken       *)
(* producer among competitors again and again is strong fairness.  Nothing *)
(* forces a caller to submit or to stop.                                   *)
Fairness ==
    /\ WF_vars(\E w \in Workers : StartThread(w))
    /\ WF_vars(StartReturns)
    /\ \A w \in Workers : WF_vars(WorkerStep(w))
    /\ \A p \in Producers : SF_vars(Put(p)) /\ WF_vars(PutWaits(p))

FairSpec == Spec /\ Fairness

-----------------------------------------------------------------------------
Queued == {m_dTaskQueue[i] : i \in DOMAIN m_dTaskQueue}

(* Types; the queue never exceeds its maximum. *)
TypeOK ==
    /\ owner \in {"starting", "started", "stopped"}
    /\ m_vThreads \subseteq Workers
    /\ m_bRunning \in BOOLEAN
    /\ m_dTaskQueue \in Seq(Tasks)
    /\ MaxQueueSize > 0 => Len(m_dTaskQueue) <= MaxQueueSize
    /\ notEmpty \subseteq Workers
    /\ notFull \subseteq Producers
    /\ pc \in [Threads -> {"unborn", "loop", "take", "execute", "exited", "idle", "put"}]
    /\ task \in [Threads -> Tasks \cup {NoTask}]
    /\ submitted \subseteq Tasks
    /\ executions \in [Tasks -> Nat]

(* No lost wake-up: a worker sleeps only while the queue is empty and the  *)
(* pool runs, a producer only while the queue is full.                     *)
SleepersHaveReason ==
    /\ notEmpty # {} => m_dTaskQueue = <<>> /\ m_bRunning
    /\ notFull # {} => IsFull

(* No task is executed twice, and a task that waits or is being executed   *)
(* is in one place only and has not been executed yet.                     *)
ExecutedAtMostOnce ==
    /\ \A t \in Tasks : executions[t] <= 1
    /\ \A t \in Tasks \ submitted :
         executions[t] = 0 /\ t \notin Queued /\ \A x \in Threads : task[x] # t
    /\ \A t \in Queued : executions[t] = 0
    /\ \A i, j \in DOMAIN m_dTaskQueue : m_dTaskQueue[i] = m_dTaskQueue[j] => i = j
    /\ \A x \in Threads : task[x] # NoTask =>
         /\ executions[task[x]] = 0 /\ task[x] \notin Queued
         /\ \A y \in Threads : task[y] = task[x] => x = y

(* The promise of TaskQueue. *)
Promise == INSTANCE TaskQueue WITH
    Capacity <- MaxQueueSize,
    waiting  <- m_dTaskQueue,
    started  <- {t \in Tasks : executions[t] > 0 \/ \E w \in Workers : task[w] = t},
    executed <- {t \in Tasks : executions[t] > 0}

KeepsPromise == Promise!Spec

(* A task that waits in the queue, or whose caller waits to put it there,  *)
(* is executed in the end, unless the pool is stopped or every worker has  *)
(* left (the worker that reads m_bRunning before Start has set it does).   *)
NoWorkerLeft == \A w \in Workers : pc[w] = "exited"

WaitingTaskIsExecuted ==
    \A t \in Tasks :
        (t \in submitted) ~> (executions[t] = 1 \/ ~m_bRunning \/ NoWorkerLeft)
=============================================================================

-------------------------- MODULE ThreadPoolProofs --------------------------
(***************************************************************************)
(* Proofs about ThreadPool for any number of workers, producers and tasks  *)
(* and any queue size: its invariants, and that it keeps the promise of    *)
(* TaskQueue.                                                              *)
(***************************************************************************)
EXTENDS ThreadPool, TLAPS

(* Where a thread is determines whether it holds a task. *)
HoldsWhereItShould ==
    /\ \A w \in Workers : /\ pc[w] \in {"unborn", "loop", "take", "execute", "exited"}
                          /\ pc[w] = "execute" <=> task[w] # NoTask
    /\ \A p \in Producers : /\ pc[p] \in {"idle", "put"}
                            /\ pc[p] = "put" <=> task[p] # NoTask

Inv == TypeOK /\ SleepersHaveReason /\ ExecutedAtMostOnce /\ HoldsWhereItShould

-----------------------------------------------------------------------------
(* The empty pool satisfies the invariant. *)
LEMMA InitInv == Init => Inv
<1> SUFFICES ASSUME Init PROVE Inv
  OBVIOUS
<1> USE ThreadPoolAssumption DEF Init
<1>1. m_dTaskQueue \in Seq(Tasks) /\ DOMAIN m_dTaskQueue = {} /\ Len(m_dTaskQueue) = 0
  OBVIOUS
<1>2. TypeOK
  <2>1. pc \in [Threads -> {"unborn", "loop", "take", "execute", "exited", "idle", "put"}]
    OBVIOUS
  <2>2. task \in [Threads -> Tasks \cup {NoTask}] /\ executions \in [Tasks -> Nat]
    OBVIOUS
  <2>3. MaxQueueSize > 0 => Len(m_dTaskQueue) <= MaxQueueSize
    BY <1>1
  <2>4. owner = "starting" /\ m_vThreads = {} /\ m_bRunning = FALSE /\ notEmpty = {} /\ notFull = {}
        /\ submitted = {} /\ m_dTaskQueue \in Seq(Tasks)
    BY <1>1
  <2> HIDE DEF Init
  <2> QED BY <2>1, <2>2, <2>3, <2>4 DEF TypeOK
<1>3. SleepersHaveReason /\ HoldsWhereItShould
  BY DEF SleepersHaveReason, HoldsWhereItShould, Threads
<1>4. ExecutedAtMostOnce
  BY <1>1 DEF ExecutedAtMostOnce, Queued, Threads
<1> QED BY <1>2, <1>3, <1>4 DEF Inv

(* Steps that only move program counters, flags and waiters. *)
LEMMA ControlStepInv ==
    ASSUME Inv, UNCHANGED <<m_dTaskQueue, task, submitted, executions>>, TypeOK',
           SleepersHaveReason', HoldsWhereItShould'
    PROVE  Inv'
BY DEF Inv, ExecutedAtMostOnce, Queued, Threads

(* A call of Run. *)
LEMMA RunCalledInv ==
    ASSUME Inv, NEW p \in Producers, NEW t \in Tasks, RunCalled(p, t)
    PROVE  Inv'
<1> USE ThreadPoolAssumption DEF Inv, RunCalled
<1>1. t \notin submitted /\ executions[t] = 0 /\ t \notin Queued /\ \A x \in Threads : task[x] # t
  BY DEF ExecutedAtMostOnce
<1>1a. p \in Threads /\ task[p] = NoTask
  BY DEF HoldsWhereItShould, Threads
<1>2. TypeOK'
  <2>1. pc' \in [Threads -> {"unborn", "loop", "take", "execute", "exited", "idle", "put"}]
    BY <1>1a DEF TypeOK
  <2>2. task' \in [Threads -> Tasks \cup {NoTask}] /\ executions' \in [Tasks -> Nat]
    BY <1>1a DEF TypeOK
  <2> QED BY <2>1, <2>2 DEF TypeOK
<1>3. SleepersHaveReason'
  BY DEF SleepersHaveReason, IsFull
<1>4. HoldsWhereItShould'
  BY <1>1 DEF HoldsWhereItShould, TypeOK, Threads
<1>5. ExecutedAtMostOnce'
  <2>1. CASE m_vThreads = {}
    <3>1. /\ executions' = [executions EXCEPT ![t] = 1] /\ UNCHANGED <<task, m_dTaskQueue>>
          /\ submitted' = submitted \cup {t}
      BY <2>1, <1>1 DEF TypeOK
    <3>2. /\ \A s \in Tasks \ {t} : executions'[s] = executions[s]
          /\ executions'[t] = 1
      BY <3>1 DEF TypeOK
    <3>3. \A s \in Queued : s # t /\ s \in Tasks
      BY <1>1 DEF Queued, TypeOK
    <3>4. \A x \in Threads : task[x] \in Tasks \cup {NoTask}
      BY DEF TypeOK
    <3> QED BY <3>1, <3>2, <3>3, <3>4, <1>1 DEF ExecutedAtMostOnce, Queued
  <2>2. CASE m_vThreads # {}
    <3>1. /\ task' = [task EXCEPT ![p] = t] /\ UNCHANGED <<executions, m_dTaskQueue>>
          /\ submitted' = submitted \cup {t}
      BY <2>2
    <3>2. task'[p] = t /\ \A x \in Threads \ {p} : task'[x] = task[x]
      BY <3>1, <1>1a DEF TypeOK
    <3> QED BY <3>1, <3>2, <1>1, <1>1a DEF ExecutedAtMostOnce, Queued
  <2> QED BY <2>1, <2>2
<1> QED BY <1>2, <1>3, <1>4, <1>5

(* A producer pushes its task. *)
LEMMA PutInv ==
    ASSUME Inv, NEW p \in Producers, Put(p)
    PROVE  Inv'
<1> USE ThreadPoolAssumption DEF Inv, Put, NotifyNotEmpty
<1> DEFINE t == task[p]
           q == m_dTaskQueue
<1>1. /\ p \in Threads /\ t \in Tasks /\ executions[t] = 0 /\ t \notin Queued
      /\ \A x \in Threads : task[x] = t => x = p
  BY DEF HoldsWhereItShould, ExecutedAtMostOnce, TypeOK, Threads
<1>2. /\ q \in Seq(Tasks) /\ \A i, j \in DOMAIN q : q[i] = q[j] => i = j
      /\ t \notin {q[i] : i \in DOMAIN q}
  BY <1>1 DEF TypeOK, ExecutedAtMostOnce, Queued
<1>3. m_dTaskQueue' = Append(q, t)
  OBVIOUS
<1>3a. p \notin Workers
  OBVIOUS
<1> HIDE DEF q
<1>4. /\ m_dTaskQueue' \in Seq(Tasks)
      /\ \A i, j \in DOMAIN m_dTaskQueue' : m_dTaskQueue'[i] = m_dTaskQueue'[j] => i = j
      /\ {m_dTaskQueue'[i] : i \in DOMAIN m_dTaskQueue'} = {q[i] : i \in DOMAIN q} \cup {t}
      /\ Len(m_dTaskQueue') = Len(q) + 1 /\ Len(q) \in Nat
  <2>1. /\ Append(q, t) \in Seq(Tasks) /\ Len(q) \in Nat
        /\ DOMAIN Append(q, t) = DOMAIN q \cup {Len(q) + 1} /\ DOMAIN q = 1 .. Len(q)
        /\ Append(q, t)[Len(q) + 1] = t
        /\ \A i \in 1 .. Len(q) : Append(q, t)[i] = q[i]
        /\ Len(Append(q, t)) = Len(q) + 1
    BY <1>1, <1>2
  <2> HIDE DEF t
  <2> QED BY <1>2, <1>3, <2>1
<1>5. Queued' = Queued \cup {t}
  BY <1>4 DEF Queued, q
<1>6. task'[p] = NoTask /\ \A x \in Threads \ {p} : task'[x] = task[x]
  BY <1>1 DEF TypeOK
<1>7. TypeOK'
  BY <1>1, <1>4 DEF TypeOK, IsFull, q
<1>8. SleepersHaveReason'
  <2>1. p \notin notFull /\ notFull = {}
    BY DEF SleepersHaveReason
  <2> QED BY <2>1 DEF SleepersHaveReason
<1>9. HoldsWhereItShould'
  BY <1>3a, <1>6 DEF HoldsWhereItShould, TypeOK, Threads
<1>10. ExecutedAtMostOnce'
  <2>1. \A s \in Tasks \ submitted' : executions'[s] = 0 /\ s \notin Queued' /\ \A x \in Threads : task'[x] # s
    BY <1>1, <1>5, <1>6 DEF ExecutedAtMostOnce
  <2>2. \A s \in Queued' : executions'[s] = 0
    BY <1>1, <1>4, <1>5 DEF ExecutedAtMostOnce
  <2>3. \A x \in Threads : task'[x] # NoTask =>
         /\ executions'[task'[x]] = 0 /\ task'[x] \notin Queued'
         /\ \A y \in Threads : task'[y] = task'[x] => x = y
    <3> SUFFICES ASSUME NEW x \in Threads, task'[x] # NoTask
                 PROVE  /\ executions'[task'[x]] = 0 /\ task'[x] \notin Queued'
                        /\ \A y \in Threads : task'[y] = task'[x] => x = y
      OBVIOUS
    <3>1. x # p /\ task'[x] = task[x] /\ task[x] # t /\ task[x] \in Tasks
      BY <1>1, <1>6 DEF TypeOK
    <3>2. executions[task[x]] = 0 /\ task[x] \notin Queued /\ \A y \in Threads : task[y] = task[x] => x = y
      BY <3>1 DEF ExecutedAtMostOnce
    <3> QED BY <3>1, <3>2, <1>5, <1>6
  <2>4. \A s \in Tasks : executions'[s] <= 1
    BY DEF ExecutedAtMostOnce
  <2> QED BY <2>1, <2>2, <2>3, <2>4, <1>4 DEF ExecutedAtMostOnce
<1> QED BY <1>7, <1>8, <1>9, <1>10

(* A worker takes the first task. *)
LEMMA TaskTakeInv ==
    ASSUME Inv, NEW w \in Workers, TaskTake(w)
    PROVE  Inv'
<1> USE ThreadPoolAssumption DEF Inv, TaskTake, PopFront, NotifyNotFull
<1> DEFINE q == m_dTaskQueue
           t == Head(q)
<1>1. /\ q \in Seq(Tasks) /\ q # <<>> /\ \A i, j \in DOMAIN q : q[i] = q[j] => i = j
  BY DEF TypeOK, ExecutedAtMostOnce
<1>2. m_dTaskQueue' = Tail(q) /\ w \in Threads /\ w \notin Producers /\ task' = [task EXCEPT ![w] = t]
  BY DEF Threads
<1> HIDE DEF q
<1>3. /\ t \in Tasks /\ m_dTaskQueue' \in Seq(Tasks)
      /\ t \in {q[i] : i \in DOMAIN q}
      /\ t \notin {m_dTaskQueue'[i] : i \in DOMAIN m_dTaskQueue'}
      /\ {m_dTaskQueue'[i] : i \in DOMAIN m_dTaskQueue'} \subseteq {q[i] : i \in DOMAIN q}
      /\ \A i, j \in DOMAIN m_dTaskQueue' : m_dTaskQueue'[i] = m_dTaskQueue'[j] => i = j
  <2>1. /\ t \in Tasks /\ Tail(q) \in Seq(Tasks)
        /\ t \in {q[i] : i \in DOMAIN q}
        /\ t \notin {Tail(q)[i] : i \in DOMAIN Tail(q)}
        /\ {Tail(q)[i] : i \in DOMAIN Tail(q)} \subseteq {q[i] : i \in DOMAIN q}
        /\ \A i, j \in DOMAIN Tail(q) : Tail(q)[i] = Tail(q)[j] => i = j
    <3>1. /\ DOMAIN q = 1 .. Len(q) /\ Len(q) \in Nat /\ 1 \in DOMAIN q /\ Head(q) = q[1]
          /\ Tail(q) \in Seq(Tasks) /\ DOMAIN Tail(q) = 1 .. (Len(q) - 1)
          /\ \A i \in DOMAIN Tail(q) : Tail(q)[i] = q[i + 1]
      BY <1>1
    <3>2. \A i \in DOMAIN Tail(q) : i + 1 \in DOMAIN q /\ i + 1 # 1
      BY <3>1
    <3>3. \A i, j \in DOMAIN Tail(q) : i + 1 = j + 1 => i = j
      BY <3>1
    <3>4. q[1] \in Tasks
      BY <1>1, <3>1
    <3> QED BY <1>1, <3>1, <3>2, <3>3, <3>4
  <2>2. m_dTaskQueue' = Tail(q)
    BY <1>2
  <2> HIDE DEF t
  <2> QED BY <2>1, <2>2, Zenon
<1>3a. Len(m_dTaskQueue') <= Len(q) /\ Len(m_dTaskQueue') \in Nat /\ Len(q) \in Nat
  BY <1>1, <1>2
<1> HIDE DEF t
<1>4. /\ t \in Queued /\ t \notin Queued' /\ executions[t] = 0
      /\ \A x \in Threads : task[x] # t
      /\ t \in submitted
      /\ Queued' \subseteq Queued
  BY <1>3 DEF Queued, q, ExecutedAtMostOnce
<1>5. task'[w] = t /\ t # NoTask /\ \A x \in Threads \ {w} : task'[x] = task[x]
  BY <1>2, <1>3 DEF TypeOK
<1>6. TypeOK'
  BY <1>2, <1>3, <1>3a DEF TypeOK, q
<1>7. SleepersHaveReason'
  <2>1. notEmpty = {}
    BY <1>1 DEF SleepersHaveReason, q
  <2> QED BY <2>1 DEF SleepersHaveReason
<1>8. HoldsWhereItShould'
  BY <1>2, <1>5 DEF HoldsWhereItShould, TypeOK, Threads
<1>9. ExecutedAtMostOnce'
  <2>1. \A s \in Tasks \ submitted' : executions'[s] = 0 /\ s \notin Queued' /\ \A x \in Threads : task'[x] # s
    BY <1>4, <1>5 DEF ExecutedAtMostOnce
  <2>2. \A s \in Queued' : executions'[s] = 0
    BY <1>4 DEF ExecutedAtMostOnce
  <2>3. \A x \in Threads : task'[x] # NoTask =>
         /\ executions'[task'[x]] = 0 /\ task'[x] \notin Queued'
         /\ \A y \in Threads : task'[y] = task'[x] => x = y
    <3> SUFFICES ASSUME NEW x \in Threads, task'[x] # NoTask
                 PROVE  /\ executions'[task'[x]] = 0 /\ task'[x] \notin Queued'
                        /\ \A y \in Threads : task'[y] = task'[x] => x = y
      OBVIOUS
    <3>1. CASE x = w
      BY <3>1, <1>4, <1>5
    <3>2. CASE x # w
      <4>1. task'[x] = task[x] /\ task[x] \in Tasks /\ task[x] # t
        BY <3>2, <1>4, <1>5 DEF TypeOK
      <4>2. executions[task[x]] = 0 /\ task[x] \notin Queued /\ \A y \in Threads : task[y] = task[x] => x = y
        BY <4>1 DEF ExecutedAtMostOnce
      <4> QED BY <4>1, <4>2, <1>4, <1>5
    <3> QED BY <3>1, <3>2
  <2>4. \A s \in Tasks : executions'[s] <= 1
    BY DEF ExecutedAtMostOnce
  <2> QED BY <2>1, <2>2, <2>3, <2>4, <1>3 DEF ExecutedAtMostOnce
<1> QED BY <1>6, <1>7, <1>8, <1>9

(* A worker finishes its task. *)
LEMMA ExecuteTaskInv ==
    ASSUME Inv, NEW w \in Workers, ExecuteTask(w)
    PROVE  Inv'
<1> USE ThreadPoolAssumption DEF Inv, ExecuteTask
<1> DEFINE t == task[w]
<1>1. /\ w \in Threads /\ w \notin Producers /\ t \in Tasks /\ executions[t] = 0 /\ t \notin Queued
      /\ \A x \in Threads : task[x] = t => x = w
  BY DEF HoldsWhereItShould, ExecutedAtMostOnce, TypeOK, Threads
<1>2. t \in submitted
  BY <1>1 DEF ExecutedAtMostOnce
<1>3. /\ task'[w] = NoTask /\ \A x \in Threads \ {w} : task'[x] = task[x]
      /\ executions'[t] = 1 /\ \A s \in Tasks \ {t} : executions'[s] = executions[s]
  BY <1>1 DEF TypeOK
<1>4. TypeOK'
  BY <1>1 DEF TypeOK
<1>5. SleepersHaveReason'
  BY DEF SleepersHaveReason, IsFull
<1>6. HoldsWhereItShould'
  BY <1>1, <1>3 DEF HoldsWhereItShould, TypeOK, Threads
<1>7. ExecutedAtMostOnce'
  <2>1. Queued' = Queued /\ \A s \in Queued : s \in Tasks \ {t}
    BY <1>1 DEF Queued, TypeOK
  <2>2. \A x \in Threads \ {w} : task[x] \in (Tasks \cup {NoTask}) \ {t}
    BY <1>1 DEF TypeOK
  <2> QED BY <1>1, <1>2, <1>3, <2>1, <2>2 DEF ExecutedAtMostOnce, Queued
<1> QED BY <1>4, <1>5, <1>6, <1>7

-----------------------------------------------------------------------------
(* Every step of the pool keeps the invariant. *)
LEMMA NextInv == Inv /\ [Next]_vars => Inv'
<1> SUFFICES ASSUME Inv, [Next]_vars PROVE Inv'
  OBVIOUS
<1> USE ThreadPoolAssumption
<1> DEFINE Rest == TypeOK' /\ SleepersHaveReason' /\ HoldsWhereItShould'
<1>1. CASE \E w \in Workers : StartThread(w)
  <2>1. Rest
    BY <1>1 DEF StartThread, Inv, TypeOK, SleepersHaveReason, IsFull, HoldsWhereItShould, Threads
  <2> QED BY <1>1, <2>1, ControlStepInv DEF StartThread
<1>2. CASE StartReturns
  <2>1. Rest
    BY <1>2 DEF StartReturns, Inv, TypeOK, SleepersHaveReason, IsFull, HoldsWhereItShould, Threads
  <2> QED BY <1>2, <2>1, ControlStepInv DEF StartReturns
<1>3. CASE Stop
  <2>1. Rest
    BY <1>3 DEF Stop, Inv, TypeOK, SleepersHaveReason, IsFull, HoldsWhereItShould, Threads
  <2> QED BY <1>3, <2>1, ControlStepInv DEF Stop
<1>4. CASE \E p \in Producers, t \in Tasks : RunCalled(p, t)
  BY <1>4, RunCalledInv
<1>5. CASE \E p \in Producers : PutWaits(p)
  <2>1. Rest
    BY <1>5 DEF PutWaits, Inv, TypeOK, SleepersHaveReason, IsFull, HoldsWhereItShould, Threads
  <2> QED BY <1>5, <2>1, ControlStepInv DEF PutWaits
<1>6. CASE \E p \in Producers : Put(p)
  BY <1>6, PutInv
<1>7. CASE \E w \in Workers : TestRunning(w) \/ TakeWaits(w) \/ TakeNothing(w)
  <2>1. Rest
    BY <1>7 DEF TestRunning, TakeWaits, TakeNothing, Inv, TypeOK, SleepersHaveReason, IsFull,
                HoldsWhereItShould, Threads
  <2> QED BY <1>7, <2>1, ControlStepInv DEF TestRunning, TakeWaits, TakeNothing
<1>8. CASE \E w \in Workers : TaskTake(w)
  BY <1>8, TaskTakeInv
<1>9. CASE \E w \in Workers : ExecuteTask(w)
  BY <1>9, ExecuteTaskInv
<1>10. CASE \E x \in Threads : SpuriousWake(x)
  <2>1. Rest
    BY <1>10 DEF SpuriousWake, Inv, TypeOK, SleepersHaveReason, IsFull, HoldsWhereItShould, Threads
  <2> QED BY <1>10, <2>1, ControlStepInv DEF SpuriousWake
<1>11. CASE UNCHANGED vars
  <2>1. Rest
    BY <1>11 DEF vars, Inv, TypeOK, SleepersHaveReason, IsFull, HoldsWhereItShould, Threads
  <2> QED BY <1>11, <2>1, ControlStepInv DEF vars
<1> QED
  BY <1>1, <1>2, <1>3, <1>4, <1>5, <1>6, <1>7, <1>8, <1>9, <1>10, <1>11
  DEF Next, WorkerStep, ProducerStep

(* No lost wake-up, for any number of threads. *)
THEOREM NoLostWakeUp == Spec => [](TypeOK /\ SleepersHaveReason)
<1>1. Inv => TypeOK /\ SleepersHaveReason
  BY DEF Inv
<1> QED BY <1>1, InitInv, NextInv, PTL DEF Spec

(* No task is executed twice, for any number of threads. *)
THEOREM AtMostOnce == Spec => []ExecutedAtMostOnce
<1>1. Inv => ExecutedAtMostOnce
  BY DEF Inv
<1> QED BY <1>1, InitInv, NextInv, PTL DEF Spec

-----------------------------------------------------------------------------
(* Each step of the pool is a step of TaskQueue or leaves it alone. *)
Started  == {t \in Tasks : executions[t] > 0 \/ \E w \in Workers : task[w] = t}
Executed == {t \in Tasks : executions[t] > 0}

LEMMA StepKeepsPromise == Inv /\ Inv' /\ [Next]_vars => [Promise!Next]_(Promise!vars)
<1> SUFFICES ASSUME Inv, Inv', [Next]_vars PROVE [Promise!Next]_(Promise!vars)
  OBVIOUS
<1> USE ThreadPoolAssumption
<1>1. ASSUME UNCHANGED <<m_dTaskQueue, executions>>, Started' = Started
      PROVE  UNCHANGED Promise!vars
  BY <1>1 DEF Promise!vars, Started
<1>2. ASSUME UNCHANGED <<m_dTaskQueue, executions, task>>
      PROVE  UNCHANGED Promise!vars
  BY <1>1, <1>2 DEF Started
<1>3. ASSUME NEW p \in Producers, NEW t \in Tasks, RunCalled(p, t)
      PROVE  [Promise!Next]_(Promise!vars)
  <2>0. /\ t \notin submitted /\ executions[t] = 0 /\ t \notin Queued
        /\ \A x \in Threads : task[x] # t
    BY <1>3 DEF RunCalled, Inv, ExecutedAtMostOnce
  <2>1. CASE m_vThreads = {}
    <3>1. /\ executions' = [executions EXCEPT ![t] = 1] /\ UNCHANGED <<m_dTaskQueue, task>>
      BY <1>3, <2>0, <2>1 DEF RunCalled, Inv, TypeOK
    <3>2. executions'[t] = 1 /\ \A s \in Tasks \ {t} : executions'[s] = executions[s]
      BY <3>1 DEF Inv, TypeOK
    <3>3. Started' = Started \cup {t} /\ Executed' = Executed \cup {t}
      BY <3>1, <3>2 DEF Started, Executed
    <3>4. t \notin Started
      BY <2>0 DEF Started, Threads
    <3>5. Promise!ExecuteAtOnce(t)
      BY <3>1, <3>3, <3>4, <2>0 DEF Promise!ExecuteAtOnce, Promise!Fresh, Started, Executed, Queued
    <3> QED BY <3>5 DEF Promise!Next
  <2>2. CASE m_vThreads # {}
    <3>1. /\ task' = [task EXCEPT ![p] = t] /\ UNCHANGED <<m_dTaskQueue, executions>>
      BY <1>3, <2>2 DEF RunCalled
    <3>2. \A w \in Workers : task'[w] = task[w]
      BY <3>1 DEF Inv, TypeOK, Threads
    <3> QED BY <3>1, <3>2, <1>1 DEF Started
  <2> QED BY <2>1, <2>2
<1>4. ASSUME NEW p \in Producers, Put(p)
      PROVE  [Promise!Next]_(Promise!vars)
  <2>1. /\ task[p] \in Tasks /\ executions[task[p]] = 0 /\ task[p] \notin Queued
        /\ \A x \in Threads : task[x] = task[p] => x = p
        /\ p \in Threads /\ p \notin Workers
    BY <1>4 DEF Put, Inv, HoldsWhereItShould, ExecutedAtMostOnce, TypeOK, Threads
  <2>2. /\ m_dTaskQueue' = Append(m_dTaskQueue, task[p]) /\ executions' = executions
        /\ task' = [task EXCEPT ![p] = NoTask]
        /\ MaxQueueSize > 0 => Len(m_dTaskQueue) < MaxQueueSize
    BY <1>4 DEF Put, IsFull, Inv, TypeOK
  <2>3. Started' = Started /\ Executed' = Executed
    BY <2>1, <2>2 DEF Started, Executed, Inv, TypeOK, Threads
  <2>4. task[p] \notin Started
    BY <2>1 DEF Started, Threads
  <2>5. Promise!Accept(task[p])
    BY <2>1, <2>2, <2>3, <2>4 DEF Promise!Accept, Promise!Fresh, Started, Executed, Queued
  <2> QED BY <2>1, <2>5 DEF Promise!Next
<1>5. ASSUME NEW w \in Workers, TaskTake(w)
      PROVE  [Promise!Next]_(Promise!vars)
  <2>1. /\ m_dTaskQueue # <<>> /\ m_dTaskQueue' = Tail(m_dTaskQueue) /\ executions' = executions
        /\ task' = [task EXCEPT ![w] = Head(m_dTaskQueue)] /\ task[w] = NoTask
    BY <1>5 DEF TaskTake, PopFront, Inv, HoldsWhereItShould
  <2>2. Head(m_dTaskQueue) \in Tasks
    BY <2>1 DEF Inv, TypeOK
  <2>3. Started' = Started \cup {Head(m_dTaskQueue)}
    BY <2>1, <2>2 DEF Started, Inv, TypeOK, Threads
  <2>4. Promise!StartFirst
    BY <2>1, <2>3 DEF Promise!StartFirst, Started
  <2> QED BY <2>4 DEF Promise!Next
<1>6. ASSUME NEW w \in Workers, ExecuteTask(w)
      PROVE  [Promise!Next]_(Promise!vars)
  <2>a. w \in Threads /\ task[w] # NoTask
    BY <1>6 DEF ExecuteTask, Inv, HoldsWhereItShould, Threads
  <2>b. task[w] \in Tasks /\ executions[task[w]] = 0
    BY <2>a DEF Inv, TypeOK, ExecutedAtMostOnce
  <2>c. /\ m_dTaskQueue' = m_dTaskQueue
        /\ executions' = [executions EXCEPT ![task[w]] = executions[task[w]] + 1]
        /\ task' = [task EXCEPT ![w] = NoTask]
    BY <1>6 DEF ExecuteTask
  <2>1. /\ task[w] \in Tasks /\ executions[task[w]] = 0 /\ w \in Threads
        /\ m_dTaskQueue' = m_dTaskQueue
        /\ executions' = [executions EXCEPT ![task[w]] = 1]
        /\ task' = [task EXCEPT ![w] = NoTask]
    <3>1. executions[task[w]] + 1 = 1
      BY <2>b
    <3> QED BY <2>a, <2>b, <2>c, <3>1
  <2>2. \A x \in Workers \ {w} : task'[x] = task[x]
    BY <2>1 DEF Inv, TypeOK, Threads
  <2>3. executions'[task[w]] = 1 /\ \A s \in Tasks \ {task[w]} : executions'[s] = executions[s]
    BY <2>1 DEF Inv, TypeOK
  <2>4. task'[w] = NoTask
    BY <2>1 DEF Inv, TypeOK
  <2>5. Started' = Started
    BY <2>1, <2>2, <2>3, <2>4 DEF Started
  <2>6. Executed' = Executed \cup {task[w]}
    BY <2>1, <2>3 DEF Executed
  <2>7. task[w] \in Started \ Executed
    BY <2>1 DEF Started, Executed
  <2>8. Promise!Execute(task[w])
    BY <2>1, <2>5, <2>6, <2>7 DEF Promise!Execute, Started, Executed
  <2>9. PICK t \in Tasks : t = task[w]
    BY <2>b
  <2>10. Promise!Execute(t)
    BY <2>8, <2>9 DEF Promise!Execute
  <2> QED BY <2>9, <2>10 DEF Promise!Next
<1>7. CASE \/ \E w \in Workers : StartThread(w) \/ TestRunning(w) \/ TakeWaits(w) \/ TakeNothing(w)
           \/ StartReturns \/ Stop
           \/ \E p \in Producers : PutWaits(p)
           \/ \E x \in Threads : SpuriousWake(x)
           \/ UNCHANGED vars
  BY <1>2, <1>7 DEF StartThread, TestRunning, TakeWaits, TakeNothing, StartReturns, Stop, PutWaits,
     SpuriousWake, vars
<1> QED
  BY <1>3, <1>4, <1>5, <1>6, <1>7 DEF Next, WorkerStep, ProducerStep

(* ThreadPool implements TaskQueue: tasks start in the order in which they *)
(* were accepted, each is executed at most once, the queue is bounded.     *)
THEOREM ImplementsTaskQueue == Spec => KeepsPromise
<1>1. Init => Promise!Init
  <2> SUFFICES ASSUME Init PROVE Promise!Init
    OBVIOUS
  <2>1. \A t \in Tasks : executions[t] = 0
    BY DEF Init
  <2>2. \A w \in Workers : task[w] = NoTask
    BY DEF Init, Threads
  <2>3. m_dTaskQueue = <<>>
    BY DEF Init
  <2> QED BY <2>1, <2>2, <2>3, ThreadPoolAssumption DEF Promise!Init
<1> QED BY <1>1, InitInv, NextInv, StepKeepsPromise, PTL DEF Spec, KeepsPromise, Promise!Spec

(* The types of the pool: the queue within its bound, tasks and threads in *)
(* their states (ThreadPool.h).                                            *)
THEOREM TypeCorrect == Spec => []TypeOK
BY NoLostWakeUp, PTL

-----------------------------------------------------------------------------
(* A task some producer has called Run with has been executed, waits in the *)
(* queue, or is in the hands of the producer that puts it there or of the   *)
(* worker that took it: no wait, wake-up or stop drops one.                 *)
NoTaskLost ==
    \A t \in submitted : executions[t] = 1 \/ t \in Queued \/ \E x \in Threads : task[x] = t

(* m_bRunning follows the owner, and after Stop no worker sleeps any more.  *)
StoppedWorkersWake ==
    /\ m_bRunning <=> owner = "started"
    /\ owner = "stopped" => notEmpty = {}

(* What a thread holds and the queue holds, in the steps that hand it on. *)
LEMMA HandedOn ==
    ASSUME Inv, NoTaskLost, [Next]_vars
    PROVE  NoTaskLost'
<1> USE ThreadPoolAssumption
<1>0. /\ m_dTaskQueue \in Seq(Tasks) /\ task \in [Threads -> Tasks \cup {NoTask}]
      /\ executions \in [Tasks -> Nat] /\ submitted \subseteq Tasks
  BY DEF Inv, TypeOK
<1>1. ASSUME UNCHANGED <<m_dTaskQueue, task, submitted, executions>> PROVE NoTaskLost'
  BY <1>1 DEF NoTaskLost, Queued
<1>2. ASSUME NEW p \in Producers, NEW t \in Tasks, RunCalled(p, t) PROVE NoTaskLost'
  <2>1. /\ executions[t] = 0 /\ \A x \in Threads : task[x] # t
        /\ p \in Threads /\ task[p] = NoTask /\ submitted' = submitted \cup {t}
        /\ m_dTaskQueue' = m_dTaskQueue
    BY <1>2 DEF RunCalled, Inv, ExecutedAtMostOnce, HoldsWhereItShould, Threads
  <2>2. Queued' = Queued
    BY <2>1 DEF Queued
  <2>3. CASE m_vThreads = {}
    <3>1. executions'[t] = 1 /\ task' = task /\ \A s \in Tasks \ {t} : executions'[s] = executions[s]
      BY <1>0, <1>2, <2>1, <2>3 DEF RunCalled
    <3> QED BY <1>0, <2>1, <2>2, <3>1 DEF NoTaskLost
  <2>4. CASE m_vThreads # {}
    <3>1. /\ task'[p] = t /\ executions' = executions
          /\ \A x \in Threads \ {p} : task'[x] = task[x]
      BY <1>0, <1>2, <2>1, <2>4 DEF RunCalled
    <3>2. ASSUME NEW s \in submitted, NEW x \in Threads, task[x] = s PROVE task'[x] = s
      BY <1>0, <2>1, <3>1, <3>2
    <3> QED BY <1>0, <2>1, <2>2, <3>1, <3>2 DEF NoTaskLost
  <2> QED BY <2>3, <2>4
<1>3. ASSUME NEW p \in Producers, Put(p) PROVE NoTaskLost'
  <2>1. /\ p \in Threads /\ task[p] \in Tasks
        /\ m_dTaskQueue' = Append(m_dTaskQueue, task[p]) /\ UNCHANGED <<submitted, executions>>
        /\ \A x \in Threads \ {p} : task'[x] = task[x]
    BY <1>0, <1>3 DEF Put, Inv, HoldsWhereItShould, Threads
  <2>2. Queued' = Queued \cup {task[p]}
    <3>1. /\ DOMAIN m_dTaskQueue = 1 .. Len(m_dTaskQueue) /\ Len(m_dTaskQueue) \in Nat
          /\ DOMAIN m_dTaskQueue' = 1 .. (Len(m_dTaskQueue) + 1)
          /\ \A i \in 1 .. Len(m_dTaskQueue) : m_dTaskQueue'[i] = m_dTaskQueue[i]
          /\ m_dTaskQueue'[Len(m_dTaskQueue) + 1] = task[p]
      BY <1>0, <2>1
    <3>2. \A i \in DOMAIN m_dTaskQueue' : i \in DOMAIN m_dTaskQueue \/ i = Len(m_dTaskQueue) + 1
      BY <3>1
    <3>3. DOMAIN m_dTaskQueue \subseteq DOMAIN m_dTaskQueue'
          /\ Len(m_dTaskQueue) + 1 \in DOMAIN m_dTaskQueue'
      BY <3>1
    <3> QED BY <3>1, <3>2, <3>3 DEF Queued
  <2> QED BY <2>1, <2>2 DEF NoTaskLost
<1>4. ASSUME NEW w \in Workers, TaskTake(w) PROVE NoTaskLost'
  <2> DEFINE head == Head(m_dTaskQueue)
  <2>1. /\ w \in Threads /\ m_dTaskQueue # <<>> /\ m_dTaskQueue' = Tail(m_dTaskQueue)
        /\ UNCHANGED <<submitted, executions>> /\ task[w] = NoTask
        /\ task'[w] = head /\ \A x \in Threads \ {w} : task'[x] = task[x]
    BY <1>0, <1>4 DEF TaskTake, PopFront, Inv, HoldsWhereItShould, Threads
  <2>2. ASSUME NEW t \in Queued PROVE t \in Queued' \/ t = head
    <3>1. PICK i \in DOMAIN m_dTaskQueue : t = m_dTaskQueue[i]
      BY DEF Queued
    <3>2. CASE i = 1
      BY <1>0, <2>1, <3>1, <3>2
    <3>3. CASE i # 1
      <4>1. i - 1 \in DOMAIN m_dTaskQueue' /\ m_dTaskQueue'[i - 1] = t
        BY <1>0, <2>1, <3>1, <3>3
      <4> QED BY <4>1 DEF Queued
    <3> QED BY <3>2, <3>3
  <2>3. ASSUME NEW s \in submitted, NEW x \in Threads, task[x] = s PROVE task'[x] = s
    BY <1>0, <2>1, <2>3
  <2> HIDE DEF head
  <2> QED BY <2>1, <2>2, <2>3 DEF NoTaskLost
<1>5. ASSUME NEW w \in Workers, ExecuteTask(w) PROVE NoTaskLost'
  <2>1. /\ w \in Threads /\ task[w] \in Tasks /\ executions[task[w]] = 0
        /\ UNCHANGED <<submitted, m_dTaskQueue>>
        /\ executions' = [executions EXCEPT ![task[w]] = executions[task[w]] + 1]
        /\ \A x \in Threads \ {w} : task'[x] = task[x]
    BY <1>0, <1>5 DEF ExecuteTask, Inv, HoldsWhereItShould, ExecutedAtMostOnce, Threads
  <2>2. executions'[task[w]] = 1 /\ \A s \in Tasks \ {task[w]} : executions'[s] = executions[s]
    BY <1>0, <2>1
  <2>3. Queued' = Queued
    BY <2>1 DEF Queued
  <2> QED BY <1>0, <2>1, <2>2, <2>3 DEF NoTaskLost
<1>6. CASE \/ \E w \in Workers : StartThread(w) \/ TestRunning(w) \/ TakeWaits(w) \/ TakeNothing(w)
           \/ StartReturns \/ Stop
           \/ \E p \in Producers : PutWaits(p)
           \/ \E x \in Threads : SpuriousWake(x)
           \/ UNCHANGED vars
  BY <1>1, <1>6 DEF StartThread, TestRunning, TakeWaits, TakeNothing, StartReturns, Stop, PutWaits,
     SpuriousWake, vars
<1> QED BY <1>2, <1>3, <1>4, <1>5, <1>6 DEF Next, WorkerStep, ProducerStep

(* No task is lost, for any number of threads and tasks, any bound of the   *)
(* queue, spurious wake-ups and a stop at any moment (Run, TaskTake, Stop). *)
THEOREM NothingLost == Spec => []NoTaskLost
<1>1. Init => NoTaskLost
  BY DEF Init, NoTaskLost
<1> QED BY <1>1, HandedOn, InitInv, NextInv, PTL DEF Spec

(* Stop leaves no worker asleep: each one that still runs finds m_bRunning  *)
(* unset, also one that was about to wait when Stop ran.                    *)
THEOREM StopWakesWorkers == Spec => []StoppedWorkersWake
<1> DEFINE Follows == m_bRunning <=> owner = "started"
<1>1. Init => Follows
  BY DEF Init
<1>2. Inv /\ Follows /\ [Next]_vars => Follows'
  <2> SUFFICES ASSUME Inv, Follows, [Next]_vars PROVE Follows'
    OBVIOUS
  <2>1. CASE StartReturns \/ Stop
    BY <2>1 DEF StartReturns, Stop
  <2>2. CASE ~ (StartReturns \/ Stop)
    <3>1. UNCHANGED <<owner, m_bRunning>>
      BY <2>2 DEF Next, WorkerStep, ProducerStep, StartThread, RunCalled, PutWaits, Put, TestRunning,
                  TakeWaits, TaskTake, TakeNothing, ExecuteTask, SpuriousWake, vars
    <3> QED BY <3>1
  <2> QED BY <2>1, <2>2
<1>3. Inv /\ Follows => StoppedWorkersWake
  BY DEF Inv, SleepersHaveReason, StoppedWorkersWake
<1> QED BY <1>1, <1>2, <1>3, InitInv, NextInv, PTL DEF Spec
=============================================================================

--------------------------- MODULE DBServerProofs ---------------------------
(***************************************************************************)
(* Proofs about DBServer for any number of connection threads.             *)
(***************************************************************************)
EXTENDS DBServer, TLAPS

(* A thread that main has not created yet has not begun; nothing is deleted *)
(* before the server thread is joined, and then the ConnThreads go in turn. *)
MainsProgress ==
    /\ MainAt("create") => \A t \in Threads : t >= mainPc.who => threadPc[t] = "none"
    /\ MainAt("activate") => \A t \in Threads : t > mainPc.who => threadPc[t] = "none"
    /\ mainPc.op \in {"create", "activate", "wait"} => deleted = {}
    /\ mainPc.op \in {"deactivate", "join"} =>
           deleted = IF mainPc.who = ServerThread THEN {} ELSE 1 .. (mainPc.who - 1)

(* The server thread has been joined once main has turned to the pool. *)
ServerIsJoined ==
    \/ MainAt("done")
    \/ mainPc.op \in {"deactivate", "join"} /\ mainPc.who # ServerThread
    => threadPc[ServerThread] = "finished"

DeletedHaveFinished == \A c \in deleted : threadPc[c] = "finished"

FinishedAreClosed ==
    \A c \in ConnThreads : threadPc[c] = "finished" => c \notin connected

DBInv ==
    /\ ThreadsTypeOK
    /\ MainsProgress
    /\ ServerIsJoined
    /\ DeletedHaveFinished
    /\ FinishedAreClosed

-----------------------------------------------------------------------------
(* Where the numbers of the threads lie. *)
LEMMA ThreadNumbers ==
    /\ ServerThread \in Threads /\ 1 \in Threads /\ 1 \in ConnThreads
    /\ m_ConnNum \in ConnThreads
    /\ Threads = ConnThreads \cup {ServerThread}
    /\ ServerThread \notin ConnThreads
    /\ \A t \in Threads : /\ t \in Nat
                          /\ t # ServerThread => t + 1 \in Threads /\ t \in ConnThreads
                          /\ t # ServerThread /\ t # m_ConnNum => t + 1 \in ConnThreads
BY DBServerAssumption DEF ServerThread, Threads, ConnThreads

(* Before main starts a thread nothing runs. *)
LEMMA InitDBInv == DBInit => DBInv
<1> SUFFICES ASSUME DBInit PROVE DBInv
  OBVIOUS
<1> USE DBServerAssumption, ThreadNumbers DEF DBInit
<1>1. ThreadsTypeOK
  <2>1. mainPc \in [op : MainOps, who : Threads] /\ sqls \in 0 .. MaxSqls
    BY DEF MainOps
  <2>2. <<>> \in Seq(1 .. MaxSqls) /\ 0 \in 0 .. MaxSqls
    OBVIOUS
  <2> QED BY <2>1, <2>2 DEF ThreadsTypeOK
<1>2. MainsProgress /\ ServerIsJoined
  BY DEF MainsProgress, ServerIsJoined, MainAt
<1>3. DeletedHaveFinished /\ FinishedAreClosed
  BY DEF DeletedHaveFinished, FinishedAreClosed
<1> QED BY <1>1, <1>2, <1>3 DEF DBInv

(* Main starts the threads. *)
LEMMA StartInv ==
    ASSUME DBInv, StartCreates \/ StartActivates
    PROVE  DBInv'
<1> USE DBServerAssumption, ThreadNumbers DEF DBInv, MainAt, MainGoes
<1>0. mainPc.who \in Threads /\ mainPc.who \in Nat
  BY DEF ThreadsTypeOK
<1>1. CASE StartCreates
  <2> USE <1>0, <1>1 DEF StartCreates
  <2>0. mainPc' = [op |-> "activate", who |-> mainPc.who] /\ mainPc.op = "create"
    OBVIOUS
  <2>1. /\ threadPc'[mainPc.who] = "test" /\ threadPc[mainPc.who] = "none"
        /\ \A t \in Threads \ {mainPc.who} : threadPc'[t] = threadPc[t]
    BY DEF ThreadsTypeOK, MainsProgress
  <2>2. threadPc' \in [Threads -> {"none", "test", "work", "leave", "finished"}]
    BY DEF ThreadsTypeOK
  <2>3. ThreadsTypeOK'
    BY <2>0, <2>1, <2>2 DEF ThreadsTypeOK, MainOps, connVars
  <2>4. MainsProgress' /\ ServerIsJoined'
    BY <2>0, <2>1 DEF MainsProgress, ServerIsJoined
  <2>5. DeletedHaveFinished' /\ FinishedAreClosed'
    BY <2>0, <2>1 DEF DeletedHaveFinished, FinishedAreClosed, MainsProgress, connVars
  <2> QED BY <2>3, <2>4, <2>5
<1>2. CASE StartActivates
  <2> USE <1>0, <1>2 DEF StartActivates
  <2>0. /\ mainPc.op = "activate"
        /\ \/ mainPc' = [op |-> "wait", who |-> ServerThread]
           \/ /\ mainPc.who # ServerThread
              /\ mainPc' = [op |-> "create", who |-> mainPc.who + 1]
    OBVIOUS
  <2>1. mainPc' \in [op : MainOps, who : Threads]
    BY <2>0 DEF MainOps
  <2>2. ThreadsTypeOK'
    BY <2>1 DEF ThreadsTypeOK, connVars
  <2>3. MainsProgress' /\ ServerIsJoined'
    BY <2>0 DEF MainsProgress, ServerIsJoined
  <2>4. DeletedHaveFinished' /\ FinishedAreClosed'
    BY DEF DeletedHaveFinished, FinishedAreClosed, connVars
  <2> QED BY <2>2, <2>3, <2>4
<1> QED BY <1>1, <1>2

(* Main stops the threads and deletes the ConnThreads. *)
LEMMA StopInv ==
    ASSUME DBInv, Signal \/ StopDeactivates \/ StopJoins
    PROVE  DBInv'
<1> USE DBServerAssumption, ThreadNumbers DEF DBInv, MainAt, MainGoes
<1>0. mainPc.who \in Threads /\ mainPc.who \in Nat
  BY DEF ThreadsTypeOK
<1>1. CASE Signal
  <2> USE <1>1 DEF Signal
  <2>0. mainPc.op = "wait" /\ mainPc' = [op |-> "deactivate", who |-> ServerThread]
    OBVIOUS
  <2>1. ThreadsTypeOK'
    BY <2>0 DEF ThreadsTypeOK, MainOps, threadVars, connVars
  <2>2. MainsProgress' /\ ServerIsJoined'
    BY <2>0 DEF MainsProgress, ServerIsJoined
  <2>3. DeletedHaveFinished' /\ FinishedAreClosed'
    BY DEF DeletedHaveFinished, FinishedAreClosed, threadVars, connVars
  <2> QED BY <2>1, <2>2, <2>3
<1>2. CASE StopDeactivates
  <2> USE <1>0, <1>2 DEF StopDeactivates
  <2>0. mainPc.op = "deactivate" /\ mainPc' = [op |-> "join", who |-> mainPc.who]
    OBVIOUS
  <2>1. ThreadsTypeOK'
    BY <2>0 DEF ThreadsTypeOK, MainOps, connVars
  <2>2. MainsProgress' /\ ServerIsJoined'
    BY <2>0 DEF MainsProgress, ServerIsJoined
  <2>3. DeletedHaveFinished' /\ FinishedAreClosed'
    BY DEF DeletedHaveFinished, FinishedAreClosed, connVars
  <2> QED BY <2>1, <2>2, <2>3
<1>3. CASE StopJoins
  <2> USE <1>0, <1>3 DEF StopJoins
  <2> DEFINE who == mainPc.who
  <2>0. /\ mainPc.op = "join" /\ threadPc[who] = "finished"
        /\ deleted' = deleted \cup ({who} \cap ConnThreads)
        /\ UNCHANGED <<threadPc, connected>>
    BY DEF threadVars, connVars
  <2>1. \/ who = ServerThread /\ mainPc' = [op |-> "deactivate", who |-> 1]
        \/ /\ who = m_ConnNum /\ who # ServerThread
           /\ mainPc' = [op |-> "done", who |-> m_ConnNum]
        \/ /\ who # m_ConnNum /\ who # ServerThread
           /\ mainPc' = [op |-> "deactivate", who |-> who + 1]
    BY DEF ServerThread
  <2>2. mainPc' \in [op : MainOps, who : Threads]
    BY <2>1 DEF MainOps
  <2>3. ThreadsTypeOK'
    BY <2>0, <2>2 DEF ThreadsTypeOK, threadVars, connVars
  <2>4. MainsProgress'
    <3>1. CASE who = ServerThread
      BY <3>1, <2>0, <2>1 DEF MainsProgress
    <3>2. CASE who = m_ConnNum /\ who # ServerThread
      BY <3>2, <2>0, <2>1 DEF MainsProgress
    <3>3. CASE who # m_ConnNum /\ who # ServerThread
      <4>1. deleted' = (1 .. (who - 1)) \cup {who} /\ who + 1 # ServerThread
        BY <3>3, <2>0 DEF MainsProgress
      <4>2. who \in Nat /\ who >= 1
        BY <1>0 DEF Threads, ServerThread
      <4>3. (1 .. (who - 1)) \cup {who} = 1 .. ((who + 1) - 1)
        BY <4>2
      <4> QED BY <3>3, <4>1, <4>3, <2>0, <2>1 DEF MainsProgress
    <3> QED BY <3>1, <3>2, <3>3
  <2>5. ServerIsJoined'
    BY <2>0, <2>1 DEF ServerIsJoined
  <2>6. DeletedHaveFinished' /\ FinishedAreClosed'
    BY <2>0 DEF DeletedHaveFinished, FinishedAreClosed
  <2> QED BY <2>3, <2>4, <2>5, <2>6
<1> QED BY <1>1, <1>2, <1>3

(* A step of a thread that has begun and has not finished: main's place and *)
(* what it deleted stay as they are.                                        *)
LEMMA ThreadStepInv ==
    ASSUME DBInv, NEW t \in Threads, threadPc[t] \in {"test", "work", "leave"},
           ThreadsTypeOK', UNCHANGED <<mainPc, deleted>>,
           \A u \in Threads \ {t} : threadPc'[u] = threadPc[u],
           \A c \in ConnThreads \ {t} : c \in connected' => c \in connected,
           threadPc'[t] = "finished" => t \notin connected'
    PROVE  DBInv'
<1> USE ThreadNumbers DEF DBInv, MainAt
<1>1. MainsProgress'
  BY DEF MainsProgress
<1>2. ServerIsJoined'
  BY DEF ServerIsJoined
<1>3. DeletedHaveFinished'
  BY DEF DeletedHaveFinished, ThreadsTypeOK
<1>4. FinishedAreClosed'
  BY DEF FinishedAreClosed
<1> QED BY <1>1, <1>2, <1>3, <1>4

(* A ConnThread's steps. *)
LEMMA ConnStepInv ==
    ASSUME DBInv, NEW c \in ConnThreads, ConnStep(c)
    PROVE  DBInv'
<1> USE DBServerAssumption, ThreadNumbers
<1>0. c \in Threads /\ ThreadsTypeOK
  BY DEF DBInv
<1>a. 0 \in 0 .. MaxSqls
  OBVIOUS
<1>1. CASE TestActive(c)
  <2> USE <1>0, <1>1 DEF TestActive, connVars
  <2>1. ThreadsTypeOK'
    BY DEF ThreadsTypeOK
  <2>2. /\ threadPc[c] = "test" /\ threadPc'[c] \in {"work", "leave"}
        /\ \A u \in Threads \ {c} : threadPc'[u] = threadPc[u]
    BY DEF ThreadsTypeOK
  <2> QED BY <2>1, <2>2, ThreadStepInv
<1>2. ASSUME NEW ok \in BOOLEAN, ConnWorks(c, ok)
      PROVE  DBInv'
  <2> USE <1>0, <1>2 DEF ConnWorks, ConnectsToDB
  <2>0. /\ threadPc[c] = "work" /\ executing[c] = 0
        /\ bConn' = [bConn EXCEPT ![c] = ok]
        /\ UNCHANGED <<mainPc, m_bActive, m_SqlDeque, deleted, sqls>>
    OBVIOUS
  <2>1. connected' \subseteq ConnThreads /\ connected \subseteq connected'
        /\ \A d \in ConnThreads \ {c} : d \in connected' => d \in connected
    BY DEF ThreadsTypeOK
  <2>2. CASE ok /\ m_SqlDeque[c] # <<>>
    <3>1. Head(m_SqlDeque[c]) \in 1 .. MaxSqls
      BY <2>2 DEF ThreadsTypeOK
    <3>2. executing' = [executing EXCEPT ![c] = Head(m_SqlDeque[c])]
          /\ threadPc' = threadPc /\ c \in connected'
      BY <2>2
    <3>3. executing' \in [ConnThreads -> 0 .. MaxSqls]
      BY <3>1, <3>2 DEF ThreadsTypeOK
    <3>4. \A d \in ConnThreads : executing'[d] # 0 => threadPc'[d] = "work" /\ d \in connected'
      BY <3>2, <2>0, <2>1 DEF ThreadsTypeOK
    <3>5. ThreadsTypeOK'
      BY <2>0, <2>1, <3>2, <3>3, <3>4 DEF ThreadsTypeOK
    <3> QED BY <2>0, <2>1, <3>2, <3>5, ThreadStepInv
  <2>3. CASE ~(ok /\ m_SqlDeque[c] # <<>>)
    <3>1. threadPc' = [threadPc EXCEPT ![c] = "test"] /\ executing' = executing
      BY <2>3
    <3>2. \A d \in ConnThreads : executing'[d] # 0 => threadPc'[d] = "work" /\ d \in connected'
      BY <3>1, <2>0, <2>1 DEF ThreadsTypeOK
    <3>3. ThreadsTypeOK'
      BY <2>0, <2>1, <3>1, <3>2 DEF ThreadsTypeOK
    <3>4. threadPc'[c] = "test" /\ \A u \in Threads \ {c} : threadPc'[u] = threadPc[u]
      BY <3>1 DEF ThreadsTypeOK
    <3> QED BY <2>0, <2>1, <3>3, <3>4, ThreadStepInv
  <2> QED BY <2>2, <2>3
<1>3. CASE Execute(c)
  <2> USE <1>0, <1>a, <1>3 DEF Execute
  <2>1. ThreadsTypeOK'
    BY DEF ThreadsTypeOK
  <2>2. /\ threadPc[c] = "work" /\ threadPc'[c] = "test"
        /\ \A u \in Threads \ {c} : threadPc'[u] = threadPc[u]
    BY DEF ThreadsTypeOK
  <2> QED BY <2>1, <2>2, ThreadStepInv
<1>4. CASE ConnLeaves(c)
  <2> USE <1>0, <1>4 DEF ConnLeaves
  <2>1. ThreadsTypeOK'
    BY DEF ThreadsTypeOK
  <2>2. /\ threadPc[c] = "leave" /\ c \notin connected'
        /\ \A u \in Threads \ {c} : threadPc'[u] = threadPc[u]
    BY DEF ThreadsTypeOK
  <2> QED BY <2>1, <2>2, ThreadStepInv
<1> QED BY <1>1, <1>2, <1>3, <1>4, ConnStep(c) DEF ConnStep

(* The server thread's steps, among them a dispatched statement. *)
LEMMA ServerStepInv ==
    ASSUME DBInv, DispatchReq \/ ServerStep
    PROVE  DBInv'
<1> USE DBServerAssumption, ThreadNumbers
<1>0. ServerThread \in Threads /\ ThreadsTypeOK
  BY DEF DBInv
<1>1. CASE DispatchReq
  <2> USE <1>0, <1>1 DEF DispatchReq
  <2>1. sqls + 1 \in 1 .. MaxSqls /\ sqls' \in 0 .. MaxSqls
    BY DEF ThreadsTypeOK
  <2>2. \A c \in ConnThreads : Append(m_SqlDeque[c], sqls + 1) \in Seq(1 .. MaxSqls)
    BY <2>1 DEF ThreadsTypeOK
  <2>3. m_SqlDeque' \in [ConnThreads -> Seq(1 .. MaxSqls)]
    BY <2>2 DEF ThreadsTypeOK
  <2>4. ThreadsTypeOK'
    BY <2>1, <2>3 DEF ThreadsTypeOK, threadVars
  <2>5. UNCHANGED <<mainPc, threadPc, connected, deleted>> /\ threadPc[ServerThread] = "work"
    BY DEF threadVars
  <2> QED BY <2>4, <2>5, ThreadStepInv
<1>2. ASSUME TestActive(ServerThread) \/ ServerLoops \/ ServerLeaves
      PROVE  DBInv'
  <2> USE <1>0, <1>2 DEF TestActive, ServerLoops, ServerLeaves, connVars
  <2>1. /\ threadPc[ServerThread] \in {"test", "work", "leave"}
        /\ \E pc \in {"test", "work", "leave", "finished"} :
              threadPc' = [threadPc EXCEPT ![ServerThread] = pc]
        /\ UNCHANGED <<mainPc, m_bActive, bConn, m_SqlDeque, executing, connected, deleted, sqls>>
    OBVIOUS
  <2>2. ThreadsTypeOK'
    BY <2>1 DEF ThreadsTypeOK
  <2>3. \A u \in Threads \ {ServerThread} : threadPc'[u] = threadPc[u]
    BY <2>1 DEF ThreadsTypeOK
  <2>4. ServerThread \notin connected'
    BY <2>2 DEF ThreadsTypeOK
  <2> QED BY <2>1, <2>2, <2>3, <2>4, ThreadStepInv
<1> QED BY <1>1, <1>2, DispatchReq \/ ServerStep DEF ServerStep

(* The invariant is kept by every step. *)
LEMMA DBInvKept == DBInv /\ [DBNext]_dbVars => DBInv'
<1> SUFFICES ASSUME DBInv, [DBNext]_dbVars PROVE DBInv'
  OBVIOUS
<1>1. CASE MainStep \/ Signal
  BY <1>1, StartInv, StopInv DEF MainStep
<1>2. CASE DispatchReq \/ ServerStep
  BY <1>2, ServerStepInv
<1>3. CASE \E c \in ConnThreads : ConnStep(c)
  BY <1>3, ConnStepInv
<1>4. CASE UNCHANGED dbVars
  BY <1>4 DEF dbVars, threadVars, connVars, DBInv, ThreadsTypeOK, MainsProgress,
      ServerIsJoined, DeletedHaveFinished, FinishedAreClosed, MainAt
<1> QED BY <1>1, <1>2, <1>3, <1>4 DEF DBNext

LEMMA DBInvariance == DBSpec => []DBInv
BY InitDBInv, DBInvKept, PTL DEF DBSpec

-----------------------------------------------------------------------------
(* The types, and that a thread that has taken a statement is in its loop   *)
(* with its connection open (ConnThread::ThreadLoop).                       *)
THEOREM ThreadsTypeCorrect == DBSpec => []ThreadsTypeOK
<1>1. DBInv => ThreadsTypeOK
  BY DEF DBInv
<1> QED BY <1>1, DBInvariance, PTL

(* Nobody works with a ConnThread that main has deleted: with any number of *)
(* threads the order of the two stops in DB::Stop, and the join before each *)
(* delete, leave neither the server thread nor the ConnThread running.      *)
THEOREM DeletedAreUnused == DBSpec => []NobodyUsesDeleted
<1>1. DBInv => NobodyUsesDeleted
  <2> SUFFICES ASSUME DBInv, NEW c \in deleted
               PROVE  /\ threadPc[c] = "finished" /\ c \notin connected
                      /\ threadPc[ServerThread] = "finished"
                      /\ ~(MainAt("deactivate") /\ mainPc.who = c)
    BY DEF NobodyUsesDeleted
  <2>1. c \in ConnThreads /\ threadPc[c] = "finished" /\ c \notin connected
    BY DEF DBInv, ThreadsTypeOK, DeletedHaveFinished, FinishedAreClosed
  <2>2. mainPc.op \in MainOps /\ mainPc.who \in Nat
    BY ThreadNumbers DEF DBInv, ThreadsTypeOK
  <2>3. threadPc[ServerThread] = "finished"
    BY <2>2 DEF DBInv, MainsProgress, ServerIsJoined, MainAt, MainOps
  <2>4. ~(MainAt("deactivate") /\ mainPc.who = c)
    BY <2>1, <2>2 DEF DBInv, MainsProgress, MainAt
  <2> QED BY <2>1, <2>3, <2>4
<1> QED BY <1>1, DBInvariance, PTL

-----------------------------------------------------------------------------
(* When main is done every thread has been joined, every connection closed  *)
(* and every ConnThread deleted (DB::Stop, ConnectionPool::Stop).           *)
StoppedWhenDone ==
    MainAt("done") =>
        /\ deleted = ConnThreads /\ connected = {}
        /\ \A t \in Threads : threadPc[t] = "finished"

(* The thread main waits for has been created and has been told to leave    *)
(* its loop, and nothing tells it otherwise (ThreadBase::Stop).             *)
ToldBeforeJoin ==
    MainAt("join") => threadPc[mainPc.who] # "none" /\ ~ m_bActive[mainPc.who]

(* Main creates the threads in turn, and stops none before it created all. *)
CreatedInTurn ==
    /\ MainAt("create") => \A t \in Threads : t < mainPc.who => threadPc[t] # "none"
    /\ MainAt("activate") => \A t \in Threads : t <= mainPc.who => threadPc[t] # "none"
    /\ mainPc.op \in {"wait", "deactivate", "join", "done"} =>
           \A t \in Threads : threadPc[t] # "none"

StoppingInv ==
    /\ CreatedInTurn
    /\ MainAt("done") => deleted = ConnThreads
    /\ MainAt("join") => ~ m_bActive[mainPc.who]

LEMMA InitStopping == DBInit => StoppingInv
BY ThreadNumbers DEF DBInit, StoppingInv, CreatedInTurn, MainAt, Threads

(* Main's own steps. *)
LEMMA MainStopping ==
    ASSUME DBInv, StoppingInv, MainStep \/ Signal
    PROVE  StoppingInv'
<1> USE DBServerAssumption, ThreadNumbers DEF MainAt, MainGoes, StoppingInv, CreatedInTurn
<1>0. ThreadsTypeOK /\ mainPc.who \in Threads /\ mainPc.who \in Nat
      /\ \A t \in Threads : t \in Nat
  BY DEF DBInv, ThreadsTypeOK
<1>1. CASE StartCreates
  <2>1. /\ mainPc.op = "create" /\ mainPc' = [op |-> "activate", who |-> mainPc.who]
        /\ threadPc'[mainPc.who] = "test"
        /\ \A t \in Threads \ {mainPc.who} : threadPc'[t] = threadPc[t]
    BY <1>0, <1>1 DEF StartCreates, ThreadsTypeOK
  <2>2. \A t \in Threads : t <= mainPc.who => t < mainPc.who \/ t = mainPc.who
    BY <1>0
  <2> QED BY <1>0, <2>1, <2>2
<1>2. CASE StartActivates
  <2>1. /\ mainPc.op = "activate" /\ threadPc' = threadPc
        /\ \/ mainPc.who = ServerThread /\ mainPc' = [op |-> "wait", who |-> ServerThread]
           \/ mainPc' = [op |-> "create", who |-> mainPc.who + 1]
    BY <1>2 DEF StartActivates
  <2>2. \A t \in Threads : t <= ServerThread /\ (t < mainPc.who + 1 => t <= mainPc.who)
    BY <1>0 DEF Threads, ServerThread
  <2> QED BY <1>0, <2>1, <2>2
<1>3. CASE Signal
  BY <1>3 DEF Signal, threadVars
<1>4. CASE StopDeactivates
  <2>1. /\ mainPc.op = "deactivate" /\ mainPc' = [op |-> "join", who |-> mainPc.who]
        /\ threadPc' = threadPc /\ m_bActive'[mainPc.who] = FALSE
    BY <1>0, <1>4 DEF StopDeactivates, ThreadsTypeOK
  <2> QED BY <1>0, <2>1
<1>5. CASE StopJoins
  <2> DEFINE who == mainPc.who
  <2>1. /\ mainPc.op = "join" /\ threadPc' = threadPc
        /\ deleted' = deleted \cup ({who} \cap ConnThreads)
        /\ \/ who = ServerThread /\ mainPc' = [op |-> "deactivate", who |-> 1]
           \/ /\ who = m_ConnNum /\ who # ServerThread
              /\ mainPc' = [op |-> "done", who |-> m_ConnNum]
           \/ mainPc' = [op |-> "deactivate", who |-> who + 1]
    BY <1>5 DEF StopJoins, threadVars, ServerThread
  <2>2. who = m_ConnNum /\ who # ServerThread => deleted' = ConnThreads
    <3>1. who # ServerThread => deleted = 1 .. (who - 1)
      BY <2>1 DEF DBInv, MainsProgress
    <3>2. (1 .. (m_ConnNum - 1)) \cup {m_ConnNum} = ConnThreads
      BY DEF ConnThreads
    <3> QED BY <2>1, <3>1, <3>2
  <2>3. \A t \in Threads : threadPc'[t] # "none"
    BY <2>1
  <2> QED BY <2>1, <2>2, <2>3
<1> QED BY <1>1, <1>2, <1>3, <1>4, <1>5 DEF MainStep

(* The other threads' steps: a thread that was created stays created. *)
LEMMA ThreadsStopping ==
    ASSUME DBInv, StoppingInv, DispatchReq \/ ServerStep \/ \E c \in ConnThreads : ConnStep(c)
    PROVE  StoppingInv'
<1>1. UNCHANGED <<mainPc, deleted, m_bActive>>
  BY DEF DispatchReq, ServerStep, ConnStep, TestActive, ConnWorks, Execute, ConnLeaves,
         ServerLoops, ServerLeaves, threadVars
<1>2. \A t \in Threads : threadPc[t] # "none" => threadPc'[t] # "none"
  <2>1. \/ threadPc' = threadPc
        \/ \E t \in Threads, pc \in {"test", "work", "leave", "finished"} :
              threadPc' = [threadPc EXCEPT ![t] = pc]
    <3>1. CASE DispatchReq
      BY <3>1 DEF DispatchReq, threadVars
    <3>2. CASE ServerStep
      BY <3>2, ThreadNumbers DEF ServerStep, TestActive, ServerLoops, ServerLeaves
    <3>3. ASSUME NEW c \in ConnThreads, ConnStep(c)
          PROVE  \/ threadPc' = threadPc
                 \/ \E pc \in {"test", "work", "leave", "finished"} :
                       threadPc' = [threadPc EXCEPT ![c] = pc]
      BY <3>3 DEF ConnStep, TestActive, ConnWorks, Execute, ConnLeaves
    <3> QED BY <3>1, <3>2, <3>3, ThreadNumbers
  <2> QED BY <2>1 DEF DBInv, ThreadsTypeOK
<1>3. MainAt("join") => mainPc.who \in Threads
  BY DEF DBInv, ThreadsTypeOK
<1> QED BY <1>1, <1>2, <1>3 DEF StoppingInv, CreatedInTurn, MainAt

LEMMA StoppingInvariance == DBSpec => []StoppingInv
<1>1. DBInv /\ StoppingInv /\ [DBNext]_dbVars => StoppingInv'
  <2>1. CASE UNCHANGED dbVars
    BY <2>1 DEF dbVars, threadVars, StoppingInv, CreatedInTurn, MainAt
  <2> QED BY <2>1, MainStopping, ThreadsStopping DEF DBNext
<1> QED BY <1>1, InitStopping, DBInvariance, PTL DEF DBSpec

(* The stop leaves nothing behind: with any number of threads, main reaches *)
(* its end only with every thread joined, every connection closed and every *)
(* ConnThread deleted, and it never waits for a thread it has not told to   *)
(* leave.  That main gets there is for the runs.                            *)
THEOREM StopLeavesNothing == DBSpec => [](StoppedWhenDone /\ ToldBeforeJoin)
<1>1. DBInv /\ StoppingInv => StoppedWhenDone
  <2> SUFFICES ASSUME DBInv, StoppingInv, MainAt("done")
               PROVE  /\ deleted = ConnThreads /\ connected = {}
                      /\ \A t \in Threads : threadPc[t] = "finished"
    BY DEF StoppedWhenDone
  <2>1. deleted = ConnThreads /\ connected \subseteq ConnThreads
    BY DEF DBInv, StoppingInv, ThreadsTypeOK
  <2>2. threadPc[ServerThread] = "finished" /\ \A c \in ConnThreads : threadPc[c] = "finished"
    BY <2>1 DEF DBInv, ServerIsJoined, DeletedHaveFinished
  <2> QED BY <2>1, <2>2, ThreadNumbers DEF DBInv, FinishedAreClosed
<1>2. DBInv /\ StoppingInv => ToldBeforeJoin
  BY DEF DBInv, StoppingInv, ThreadsTypeOK, CreatedInTurn, ToldBeforeJoin, MainAt
<1> QED BY <1>1, <1>2, DBInvariance, StoppingInvariance, PTL

-----------------------------------------------------------------------------
(* What ThreadLoop and IsFree come to: every statement goes to the first    *)
(* ConnThread, whose deque only grows, and whatever is executed is the      *)
(* first statement ever dispatched.                                         *)
OnlyFirstIsExecuted ==
    /\ \A c \in ConnThreads : c # 1 => m_SqlDeque[c] = <<>>
    /\ Len(m_SqlDeque[1]) = sqls /\ \A k \in 1 .. sqls : m_SqlDeque[1][k] = k
    /\ \A c \in ConnThreads : executing[c] # 0 => c = 1 /\ executing[c] = 1

(* A dispatch finds the first thread free. *)
LEMMA FirstIsChosen == Chosen = 1
<1> DEFINE free == {c \in ConnThreads : IsFree(c)}
<1>1. free = ConnThreads /\ free # {}
  BY ThreadNumbers DEF IsFree
<1>2. 1 \in free /\ \A d \in free : 1 <= d
  BY <1>1, ThreadNumbers DEF ConnThreads
<1>3. \A c \in free : (\A d \in free : c <= d) => c = 1
  BY <1>1, <1>2 DEF ConnThreads
<1>4. (CHOOSE c \in free : \A d \in free : c <= d) = 1
  BY <1>2, <1>3
<1> QED BY <1>1, <1>4 DEF Chosen

(* A statement that executed is not taken from its deque, and none is ever  *)
(* given to a second thread: for every number of threads the first one      *)
(* executes the first statement over and over, and the others nothing       *)
(* (ConnThread::ThreadLoop, ConnectionPool::DispatchReq, IsFree).           *)
THEOREM FirstStatementForEver == DBSpec => []OnlyFirstIsExecuted
<1>1. DBInit => OnlyFirstIsExecuted
  BY ThreadNumbers DEF DBInit, OnlyFirstIsExecuted
<1>2. DBInv /\ OnlyFirstIsExecuted /\ [DBNext]_dbVars => OnlyFirstIsExecuted'
  <2> SUFFICES ASSUME DBInv, OnlyFirstIsExecuted, [DBNext]_dbVars PROVE OnlyFirstIsExecuted'
    OBVIOUS
  <2>1. /\ m_SqlDeque \in [ConnThreads -> Seq(1 .. MaxSqls)] /\ sqls \in Nat
        /\ executing \in [ConnThreads -> 0 .. MaxSqls]
    BY DBServerAssumption DEF DBInv, ThreadsTypeOK
  <2>2. CASE DispatchReq
    <3>1. /\ m_SqlDeque' = [m_SqlDeque EXCEPT ![1] = Append(m_SqlDeque[1], sqls + 1)]
          /\ sqls' = sqls + 1 /\ executing' = executing
      BY <2>2, FirstIsChosen DEF DispatchReq
    <3>2. /\ m_SqlDeque'[1] = Append(m_SqlDeque[1], sqls + 1)
          /\ \A c \in ConnThreads : c # 1 => m_SqlDeque'[c] = m_SqlDeque[c]
          /\ m_SqlDeque[1] \in Seq(1 .. MaxSqls)
      BY <2>1, <3>1, ThreadNumbers
    <3>3. /\ Len(m_SqlDeque'[1]) = sqls' /\ m_SqlDeque'[1][sqls + 1] = sqls + 1
          /\ \A k \in 1 .. sqls : m_SqlDeque'[1][k] = k
      BY <2>1, <3>1, <3>2 DEF OnlyFirstIsExecuted
    <3> QED BY <2>1, <3>1, <3>2, <3>3 DEF OnlyFirstIsExecuted
  <2>3. ASSUME NEW c \in ConnThreads, ConnStep(c) PROVE OnlyFirstIsExecuted'
    <3>1. UNCHANGED <<m_SqlDeque, sqls>>
      BY <2>3 DEF ConnStep, TestActive, ConnWorks, Execute, ConnLeaves, connVars
    <3>2. \/ executing' = executing
          \/ executing' = [executing EXCEPT ![c] = 0]
          \/ m_SqlDeque[c] # <<>> /\ executing' = [executing EXCEPT ![c] = Head(m_SqlDeque[c])]
      BY <2>3 DEF ConnStep, TestActive, ConnWorks, Execute, ConnLeaves, connVars
    <3>3. m_SqlDeque[c] # <<>> => c = 1 /\ Head(m_SqlDeque[c]) = 1
      BY <2>1 DEF OnlyFirstIsExecuted
    <3>4. \A d \in ConnThreads : executing'[d] # 0 => d = 1 /\ executing'[d] = 1
      BY <2>1, <3>2, <3>3 DEF OnlyFirstIsExecuted
    <3> QED BY <3>1, <3>4 DEF OnlyFirstIsExecuted
  <2>4. CASE MainStep \/ Signal \/ ServerStep \/ UNCHANGED dbVars
    <3>1. UNCHANGED <<m_SqlDeque, executing, sqls>>
      BY <2>4 DEF MainStep, StartCreates, StartActivates, StopDeactivates, StopJoins, Signal,
                  ServerStep, TestActive, ServerLoops, ServerLeaves, connVars, dbVars
    <3> QED BY <3>1 DEF OnlyFirstIsExecuted
  <2> QED BY <2>2, <2>3, <2>4 DEF DBNext
<1> QED BY <1>1, <1>2, DBInvariance, PTL DEF DBSpec
=============================================================================

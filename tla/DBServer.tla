------------------------------ MODULE DBServer ------------------------------
(***************************************************************************)
(* The threads of the database server: main, the server thread, and the    *)
(* ConnThreads of the ConnectionPool (src/DBServer), all of them started   *)
(* and stopped through ThreadBase (src/Common/ServerComm/ThreadBase.cpp).  *)
(* Main creates and starts the ConnThreads one by one, starts the server   *)
(* thread, waits for a signal, stops the server thread and then stops and  *)
(* deletes the ConnThreads in turn.                                        *)
(*                                                                         *)
(* m_bActive is a plain bool and the deques are not locked: a read sees    *)
(* the value before or after a concurrent write, which is what the order   *)
(* of the steps chooses (emplace_back leaves the front of a deque alone).  *)
(***************************************************************************)
EXTENDS Integers, Sequences

CONSTANTS
    m_ConnNum,      \* ConnThreads in the pool
    MaxSqls         \* bound: statements dispatched

ConnThreads   == 1 .. m_ConnNum
ServerThread  == m_ConnNum + 1
Threads       == 1 .. ServerThread

ASSUME DBServerAssumption == m_ConnNum \in Nat \ {0} /\ MaxSqls \in Nat

VARIABLES
    mainPc,         \* what main does next: [op, who]
    m_bActive,      \* per thread
    threadPc,       \* per thread: "none" until the std::thread is created
    bConn,          \* per ConnThread, the result of its last ping
    m_SqlDeque,     \* per ConnThread
    executing,      \* per ConnThread, the statement it took from its deque, or 0
    connected,      \* ConnThreads whose connection to the database is open
    deleted,        \* ConnThreads main has deleted
    sqls            \* statements dispatched so far

threadVars == <<m_bActive, threadPc>>
connVars   == <<bConn, m_SqlDeque, executing, connected>>
dbVars     == <<mainPc, threadVars, connVars, deleted, sqls>>

DBInit ==
    /\ mainPc = [op |-> "create", who |-> 1]
    /\ m_bActive = [t \in Threads |-> FALSE]
    /\ threadPc = [t \in Threads |-> "none"]
    /\ bConn = [c \in ConnThreads |-> FALSE]
    /\ m_SqlDeque = [c \in ConnThreads |-> <<>>]
    /\ executing = [c \in ConnThreads |-> 0]
    /\ connected = {}
    /\ deleted = {}
    /\ sqls = 0

MainGoes(op, who) == mainPc' = [op |-> op, who |-> who]
MainAt(op)        == mainPc.op = op

-----------------------------------------------------------------------------
(* ThreadBase::Start creates the thread, which runs from here on, before it *)
(* sets m_bActive.  Init has emptied the deque of a ConnThread.             *)
StartCreates ==
    /\ MainAt("create")
    /\ threadPc' = [threadPc EXCEPT ![mainPc.who] = "test"]
    /\ MainGoes("activate", mainPc.who)
    /\ UNCHANGED <<m_bActive, connVars, deleted, sqls>>

StartActivates ==
    /\ MainAt("activate")
    /\ m_bActive' = [m_bActive EXCEPT ![mainPc.who] = TRUE]
    /\ IF mainPc.who = ServerThread
       THEN MainGoes("wait", ServerThread)
       ELSE MainGoes("create", mainPc.who + 1)
    /\ UNCHANGED <<threadPc, connVars, deleted, sqls>>

(* DB::Stop: the server thread first, the pool after it. *)
Signal_PoolFirst ==                 \* slip: the two calls in the other order
    /\ MainAt("wait")
    /\ MainGoes("deactivate", 1)
    /\ UNCHANGED <<threadVars, connVars, deleted, sqls>>

Signal ==
    /\ MainAt("wait")
    /\ MainGoes("deactivate", ServerThread)
    /\ UNCHANGED <<threadVars, connVars, deleted, sqls>>

StopDeactivates_Not ==              \* slip: m_bActive = false after Join
    /\ MainAt("deactivate")
    /\ MainGoes("join", mainPc.who)
    /\ UNCHANGED <<threadVars, connVars, deleted, sqls>>

StopDeactivates ==
    /\ MainAt("deactivate")
    /\ m_bActive' = [m_bActive EXCEPT ![mainPc.who] = FALSE]
    /\ MainGoes("join", mainPc.who)
    /\ UNCHANGED <<threadPc, connVars, deleted, sqls>>

(* Join returns when ThreadLoop has; ConnectionPool::Stop then deletes the  *)
(* ConnThread and turns to the next.                                        *)
StopJoins ==
    /\ MainAt("join")
    /\ threadPc[mainPc.who] = "finished"
    /\ deleted' = deleted \cup ({mainPc.who} \cap ConnThreads)
    /\ CASE mainPc.who = ServerThread -> MainGoes("deactivate", 1)
         [] mainPc.who = m_ConnNum    -> MainGoes("done", m_ConnNum)
         [] OTHER                     -> MainGoes("deactivate", mainPc.who + 1)
    /\ UNCHANGED <<threadVars, connVars, sqls>>

MainStep == StartCreates \/ StartActivates \/ StopDeactivates \/ StopJoins

-----------------------------------------------------------------------------
(* while (IsActive()). *)
TestActive(t) ==
    /\ threadPc[t] = "test"
    /\ threadPc' = [threadPc EXCEPT
           ![t] = IF m_bActive[t] THEN "work" ELSE "leave"]
    /\ UNCHANGED <<mainPc, m_bActive, connVars, deleted, sqls>>

(* ConnectToDB if the last ping failed: it succeeds or it does not. *)
ConnectsToDB(c) ==
    \/ connected' = connected
    \/ ~bConn[c] /\ connected' = connected \cup {c}

(* Connect, ping, and take the first statement, which stays in the deque.   *)
ConnWorks_Blind(c, ok) ==           \* slip: bConn is not tested before the statement is taken
    /\ threadPc[c] = "work" /\ executing[c] = 0
    /\ ConnectsToDB(c)
    /\ ok => c \in connected'
    /\ bConn' = [bConn EXCEPT ![c] = ok]
    /\ IF m_SqlDeque[c] # <<>>
       THEN /\ executing' = [executing EXCEPT ![c] = Head(m_SqlDeque[c])]
            /\ UNCHANGED threadPc
       ELSE /\ threadPc' = [threadPc EXCEPT ![c] = "test"]
            /\ UNCHANGED executing
    /\ UNCHANGED <<mainPc, m_bActive, m_SqlDeque, deleted, sqls>>

ConnWorks(c, ok) ==
    /\ threadPc[c] = "work" /\ executing[c] = 0
    /\ ConnectsToDB(c)
    /\ ok => c \in connected'
    /\ bConn' = [bConn EXCEPT ![c] = ok]
    /\ IF ok /\ m_SqlDeque[c] # <<>>
       THEN /\ executing' = [executing EXCEPT ![c] = Head(m_SqlDeque[c])]
            /\ UNCHANGED threadPc
       ELSE /\ threadPc' = [threadPc EXCEPT ![c] = "test"]
            /\ UNCHANGED executing
    /\ UNCHANGED <<mainPc, m_bActive, m_SqlDeque, deleted, sqls>>

Execute(c) ==
    /\ executing[c] # 0
    /\ executing' = [executing EXCEPT ![c] = 0]
    /\ threadPc' = [threadPc EXCEPT ![c] = "test"]
    /\ UNCHANGED <<mainPc, m_bActive, bConn, m_SqlDeque, connected, deleted, sqls>>

(* The end of ThreadLoop. *)
ConnLeaves(c) ==
    /\ threadPc[c] = "leave"
    /\ threadPc' = [threadPc EXCEPT ![c] = "finished"]
    /\ connected' = connected \ {c}
    /\ UNCHANGED <<mainPc, m_bActive, bConn, m_SqlDeque, executing, deleted, sqls>>

-----------------------------------------------------------------------------
IsFree(c) == TRUE

(* A free thread, the first in order, or else the last of those with the    *)
(* least to do.                                                             *)
Load(c) == Len(m_SqlDeque[c])

Chosen ==
    LET free  == {c \in ConnThreads : IsFree(c)}
        least == {c \in ConnThreads : \A d \in ConnThreads : Load(c) <= Load(d)}
    IN  IF free # {} THEN CHOOSE c \in free : \A d \in free : c <= d
                     ELSE CHOOSE c \in least : \A d \in least : d <= c

(* A handler of the server thread dispatches a statement. *)
DispatchReq ==
    /\ threadPc[ServerThread] = "work"
    /\ sqls < MaxSqls
    /\ sqls' = sqls + 1
    /\ m_SqlDeque' = [m_SqlDeque EXCEPT ![Chosen] = Append(@, sqls + 1)]
    /\ UNCHANGED <<mainPc, threadVars, bConn, executing, connected, deleted>>

ServerLoops ==
    /\ threadPc[ServerThread] = "work"
    /\ threadPc' = [threadPc EXCEPT ![ServerThread] = "test"]
    /\ UNCHANGED <<mainPc, m_bActive, connVars, deleted, sqls>>

ServerLeaves ==
    /\ threadPc[ServerThread] = "leave"
    /\ threadPc' = [threadPc EXCEPT ![ServerThread] = "finished"]
    /\ UNCHANGED <<mainPc, m_bActive, connVars, deleted, sqls>>

ConnStep(c) ==
    \/ TestActive(c)
    \/ \E ok \in BOOLEAN : ConnWorks(c, ok)
    \/ Execute(c)
    \/ ConnLeaves(c)

ServerStep == TestActive(ServerThread) \/ ServerLoops \/ ServerLeaves

DBNext ==
    \/ MainStep
    \/ Signal
    \/ DispatchReq
    \/ ServerStep
    \/ \E c \in ConnThreads : ConnStep(c)

DBSpec == DBInit /\ [][DBNext]_dbVars

(* The operating system runs every thread, and the calls to the database    *)
(* return; nothing makes the signal come.                                   *)
DBFairness ==
    /\ WF_dbVars(MainStep)
    /\ WF_dbVars(ServerStep)
    /\ \A c \in ConnThreads : WF_dbVars(ConnStep(c))

DBFairSpec == DBSpec /\ DBFairness

-----------------------------------------------------------------------------
MainOps == {"create", "activate", "wait", "deactivate", "join", "done"}

(* Types; a thread that has taken a statement is in its loop, with its      *)
(* connection open.                                                         *)
ThreadsTypeOK ==
    /\ mainPc \in [op : MainOps, who : Threads]
    /\ m_bActive \in [Threads -> BOOLEAN]
    /\ threadPc \in [Threads -> {"none", "test", "work", "leave", "finished"}]
    /\ bConn \in [ConnThreads -> BOOLEAN]
    /\ m_SqlDeque \in [ConnThreads -> Seq(1 .. MaxSqls)]
    /\ executing \in [ConnThreads -> 0 .. MaxSqls]
    /\ connected \subseteq ConnThreads
    /\ deleted \subseteq ConnThreads
    /\ sqls \in 0 .. MaxSqls
    /\ \A c \in ConnThreads : executing[c] # 0 => threadPc[c] = "work" /\ c \in connected

(* Nobody works with a ConnThread that main has deleted: its own ThreadLoop *)
(* has returned, and so has the server thread's, which hands statements to  *)
(* any of them; and none is deleted twice or with its connection open.      *)
NobodyUsesDeleted ==
    \A c \in deleted :
        /\ threadPc[c] = "finished" /\ c \notin connected
        /\ threadPc[ServerThread] = "finished"
        /\ ~(MainAt("deactivate") /\ mainPc.who = c)

(* Once main begins to stop, it ends, with every thread joined and every    *)
(* connection closed: also when a thread found m_bActive unset because it   *)
(* looked before Start had set it, and when the database is unreachable.    *)
StopCompletes ==
    MainAt("deactivate") ~>
        (MainAt("done") /\ connected = {} /\ \A t \in Threads : threadPc[t] = "finished")
=============================================================================

# Verification of NF-GameServer

TLA+ specifications of the parts of NF-GameServer that carry its own logic, the
TLC runs that check them on small instances, and theorems about them whose
proofs TLAPS checks for every size. Every definition is translated from the
source; `PROJECT.json` names the lines.

NF-GameServer is a distributed MMO server written around the NF network
layer: a master process that knows every server, gates that hold the players'
connections, login, world, game, chat and DB servers behind them, all of them
built from the same network classes over libevent.

## 1. The system

| Component | State | Operations | Talks to |
|---|---|---|---|
| NFNet, server role (`NFNet.cpp`) | `mmObject` (descriptor -> NetObject), `mvRemoveObject`, the marks `bNeedRemove`, `mbWorking` | `listener_cb`, `conn_eventcb`, `conn_readcb`, `CloseNetObject`, `ExecuteClose`, `Execute`, `KickAll`, sends | libevent below, NFNetModule above (event and receive callbacks) |
| NFNet, client role | one NetObject under key 0, which `CloseNetObject` does not find and `GetNetObject` does | `InitClientNet`, events, `GetNetObject` | NFNetClientModule |
| NFNet framing | per connection a byte buffer | `Dismantle`, `EnCode`, `DeCode` | NFNetModule |
| NFNetModule | callback tables | `OnReceiveNetPack`, `OnSocketNetEvent`, sends, `KeepAlive` | the servers |
| NFNetClientModule | `mxServerMap`, `mxTempNetList`, hash rings per server type | `ProcessExecute`, `ProcessAddNetConnect`, `OnSocketEvent`, sends | NetClientBase, one NFNet per connection |
| NFMapEx, NFConsistentHash | a map with one shared cursor; a ring of virtual nodes | iteration, insert, erase, lookup by hash | NetServerBase, NFNetClientModule |
| NetServerBase, MasterNodeServer | `m_mClientNodes` (server id -> descriptor, report) | `OnReportToServer`, `OnClientDisconnect`, `SyncNodeDataToAll` | every other server |
| NetClientBase | the server's own report, wanted types | `OnSocketNodeEvent`, `OnMasterMessage`, `AddConnectMaster` | the master, the servers it announces |
| Gate player server (`GatePlayerServer`, `ClientPlayerMgr`, `ClientPlayer`) | pool of players, socket map, id map, per player a NetObject pointer and an id | `OnClientConnected`, `OnClientDisconnect`, `KickPlayer`, `KickPlayerAllPlayer` | NFNet, chat route |
| Chat route (`GateNodeServer`, `ChatNodeClient`) | none of its own | `SentPackToChat`, `OnGateRouteChat`, `OnChatRouteBack` | players of the gate, register of the gate |
| ThreadPool (`ThreadPool.cpp`) | task queue, threads, `m_bRunning`, two conditions | `Start`, `Run`, `TaskTake`, `ThreadFunc`, `Stop` | its callers |
| ThreadBase and the server threads | `m_bActive`, the thread | `Start`, `Stop`, `ThreadLoop` | every server |
| DB ConnectionPool | one deque of statements per thread | `DispatchReq`, `ThreadLoop`, `Stop` | MariaDB |
| NFHttpServer, NFHttpClient | pools of request objects | `listener_cb`, `ResponseMsg`; `MakeRequest`, `OnHttpReqDone` | libevent's evhttp |
| LibEventTimer, ObjPool, MemPool, BlockQueue | timers; free and used objects; a queue | see the sources | nobody in this repository |

Interaction is by callbacks inside one thread per process: a server thread
calls `Execute` of its NFNets in a loop (`GateServerThread.cpp:18-27`), libevent
calls back into NFNet, NFNet into the server. Between processes there are only
messages over TCP. True concurrency exists in ThreadPool, in ThreadBase's start
and in the DB pool.

No server of the repository uses ThreadPool, NFHttpServer, NFHttpClient,
LibEventTimer, ObjPool, MemPool or BlockQueue, and nobody calls `DispatchReq`.
The first two and the statement queues are modelled all the same, with the
application as their environment.

What is hard here, and what a unit test hardly reaches:

* closing is deferred: between the event that ends a connection and the next
  `Execute`, its object is dead to the owner and alive to the table, and the
  kernel reuses descriptors at once;
* owners keep descriptors and raw pointers of objects that NFNet deletes;
* flag words: libevent ors the side into an event, the handlers compare whole
  words in one place, single bits in another, and "anything else" in a third;
* servers restart under the same id, report again, and their old connection's
  end may come later than their new report;
* the gate never removes the entry of a server that left, so its chat messages
  follow descriptors that may belong to another server by now;
* a walk over a map with the map's only cursor, interrupted by a second walk;
* hash points two servers have in common, of which either takes the other's away;
* a byte stream cut anywhere, with handlers that throw or close in its middle;
* a pool, a table and a queue that can be full;
* threads that sleep on one condition while another is notified, and that start
  before the state they test is set.

What makes each component correct, in one line each: NFNet: table and heap
agree, and a deferred close hits exactly the connection it was queued for. Gate:
a player serves at most one connection, and a connection that was given a player
reaches that one and no other.
Register: an entry leads to the server that reported it, everybody registered
knows everybody registered, and who died is forgotten. ThreadPool: accepted
tasks run once, in order, and nobody sleeps without a reason. Discovery: a
server keeps exactly one connection to every announced server of a wanted type,
and gets it back after a restart. Chat route: an answer reaches the player who
asked or nobody. Framing: what was sent is what is received, however TCP cuts
it. Pools of request objects: an object is in one place only. Server threads:
a stop joins every thread and deletes only what nobody uses.

## 2. Modules

| Module | What it is |
|---|---|
| `NFNet` | the connection table of a listening NFNet |
| `GatePlayers` | EXTENDS `NFNet`; the gate's players on top of its callbacks |
| `ChatRoute` | EXTENDS `GatePlayers`; the gate's node server, the chat servers and the connections between them |
| `Membership` | abstract specification: the group of servers a register keeps |
| `NodeRegistry` | EXTENDS `NFNet`; NetServerBase and the master's broadcast on top of its callbacks; implements `Membership` |
| `HashRing` | operators: NFConsistentHashMapEx |
| `NetClient` | EXTENDS `HashRing`; a server's outgoing connections |
| `MsgChannel` | abstract specification: what comes out of a connection |
| `Framing` | heads, the stream and the receive buffer; implements `MsgChannel` |
| `TaskQueue` | abstract specification: what a pool promises its callers |
| `ThreadPool` | the threads, the mutex and the two conditions; implements `TaskQueue` |
| `DBServer` | main, the server thread and the connection threads of the database server |
| `HttpServer` | the pool of request objects, filters, handlers and answers |
| `MC...` | the constants' values of each model for TLC |
| `...Proofs` | the theorems of `NFNet`, `GatePlayers` and `ChatRoute` (`GateProofs`), `NodeRegistry`, `NetClient`, `Framing`, `ThreadPool`, `DBServer`, `HttpServer` |

Variables, constants and operators carry the names of the source wherever there
is one (also `DestoryPlayer`). An operator `X_Something` with the comment `slip:`
is a plausible wrong version of `X`, used to see that a property notices it; it
is not part of the specification.

### NFNet

A step is one callback, or the part of `Execute` before or after the event
loop: one thread drives an NFNet, so callbacks are atomic and only their order
within a pass (`phase = "loop"`) varies. A NetObject has an identity of its own
(`Objs`), never reused, so a pointer to a deleted object can be told from one to
the object that took its descriptor. `fdOpen` is the kernel's view of
descriptors: one is reused as soon as it is closed. `armed` is libevent's: an
event on one side stops that side only, so a connection may raise a second event
in the same pass. `mvRemoveObject` is a vector in the code and a set here; the
second `CloseObject` of a duplicate finds nothing, so nothing is lost. When
`listener_cb` returns early the accepted descriptor is never closed, and stays
in `fdOpen` for good. `KickAll` frees at once and is only called outside the
event loop, as it would free an object under its own callback otherwise.

### GatePlayers

`OnClientConnected` and `OnClientDisconnect` run inside `ListenerCb` and
`ConnEventCb`: each action is the conjunction of the net's action and the
handler. `EndsConnection` is the switch of `GatePlayerServer.cpp:42-47`, which
compares the whole flag word. `fault` becomes TRUE when the code would read
through a NetObject that was deleted; nothing happens afterwards. Nobody in the
repository calls `KickPlayer`, so `OwnerKicks` says whether the model does.
`unserved` is history: the connections that found the pool empty. For them
`CreatePlayer` changes nothing, so a player that a missed disconnect left under
their descriptor stays there and is handed their messages. `RoutedToOwnPlayer`
speaks of the socket map in both directions and states that case as its one
exception: such a connection may reach the player of an owner that is gone (the
run has such states), never that of a connection that lives.

### ChatRoute

The gate's loop runs the node server before the player server
(`GateServerThread.cpp:18-27`), so the node server's handlers run while the player
server is between two passes. `m_mClientNodes` maps a server to the descriptor of
its last report; `nodeFd` is where its connection really is. A disconnect empties
`nodeFd` and leaves the entry, because `GateNodeServer::OnClientDisconnect` is
empty, and the descriptor may be taken by another server. `SentPackToChat` sends
to whoever sits at the descriptor of the first chat entry. Packets in flight are
lost with their connection. A packet is its player id and its message; `msg_id`
is the id of each message: the gate passes on every id of the chat module
(`msgid / 100`), the chat server has a handler for one of them and drops the
others without an answer (`ChatNodeClient.cpp:70-74`). The handler's two returns
before that are never taken. `ReceivePB` parses what the gate serialised. And
`pServerData` is found: `GetServerNetInfo` asks each connection's
`NFNet::GetNetObject`, which compares the real descriptor (`NFNet.cpp:599-611`), so
the remark "TODO pServerData allways null" at `ChatNodeClient.cpp:64` is stale; it
would be true of a lookup by the key, which is 0 on the client side.
`SockLeadsToItsServer` in `NetClient` says so, and is proved. `fate` and `asker` are
history: what became of each chat message and who sent it. `newest` is history
too: the last connection that was given a player.

### NodeRegistry and Membership

The content of a report is named by the NetObject that carried it. A server
reports once per connection (`OnSocketNodeEvent` sends it at CONNECTED). `lastList`
is the list last sent to a connection. `fault` is the null dereference of
`NetServerBase.cpp:51`; it stops the server. The model is the master's; login,
game and chat inherit the same handlers without the broadcast. `Membership` knows
no descriptors: a session is a NetObject, it ends with its event, and a join or
an end is announced to the sessions of the members.

### HashRing and NetClient

A ring is its members and its points. Adding a member leaves points it shares
with another where they are, and removing a member takes away whatever sits at
its hash values. `NetClient` makes each visit of the walk in `ProcessExecute` one
step, with `mObjectCurIter` as the code's only cursor: `KeepState` moves it to the
end, which cuts the walk short. `socket` merges what `mxNetModule` and its NFNet
hold; a `connect()` that fails at once leaves "failed", and nothing ever leaves
that state. `NetClientBase` never calls `NFNetClientModule::Init`, so its
connections stay CONNECTING; `mInitCalled` ranges over both kinds of owner. The
master's id is 0 in the instance, because the configuration's key is `NodeId` and
the code reads `NodeID`. `age` replaces the clock by the difference the code
computes. `realFD` is the descriptor of each connection's NetObject, which is
stored under key 0 and found by `GetNetObject` through its descriptor; an ended
connection keeps both until its module is dropped, and the descriptor of a
dropped one may go to any server that is dialled next. `Lists` are the lists of
servers the master may send. The report `NetClientBase` sends on CONNECTED, and
`mbWorking`, which is set just before it in the same callback, are left out.

### Framing and MsgChannel

The stream is described by offsets: where frames start, how many bytes were
appended to the buffer and how many removed. Ids are taken modulo `IdSpan` and
sizes modulo `SizeSpan`. `EnCode`, `DeCode` and `Dismantle` hold lengths in an
`int`: a frame of 2^31 bytes or more, or as many bytes waiting in the buffer, would
overflow it and is outside the model (`MaxInt`). A frame whose body is empty or whose id is 0 on the wire
is never removed, and blocks what is behind it; the channel says the same, since
the code's callers can observe it (a chat answer with all its fields at the
proto3 defaults has an empty body). Handlers return, throw (caught in
`Dismantle`) or close the connection.

### ThreadPool and TaskQueue

A critical section is one step, since it ends in unlock or in a wait, which
releases the mutex. The reads outside the mutex, `m_bRunning` in `ThreadFunc` and
`m_vThreads` in `Run`, are separate steps, so a worker can exit before `Start`
has set `m_bRunning`, and a caller can queue a task after `Stop`. Waits may
return spuriously. `Start` and `Stop` are called once each, and `Run` only once
`Start` returned, as every owner would. The refinement mapping reads the started
and executed tasks off what each thread holds and off the execution counters.

### DBServer

Main's calls of `Start` and `Stop` are split where other threads can see the
difference: the thread exists before `m_bActive` is set; `m_bActive` is cleared
before the join. `m_bActive` and the deques are not synchronised; a read sees the
value before or after a concurrent write, which is the order of the steps. The
statement a thread executes stays in its deque, as `front()` is never popped.
`IsFree` is TRUE as in the code, so every statement goes to the first thread.

### HttpServer

One call of `listener_cb` is one step, filter and handler included. `Effect` adds up
what it does: objects pushed back, replies sent, and whether the handler keeps
the object. A reply given later goes to the request the object points to then.
A handler may throw before or after it has answered or kept the object.
The shape "noBuffer" is in the module and not in the instance: libevent never
returns a null input buffer.

## 3. Runs

| Run | Instance | What it shows |
|---|---|---|
| `nfnet` | 3 descriptors, 3 connections, `mnMaxConnect` 2, all side/cause words | the table and the heap agree; deferred closes match the marks and never free an unmarked object; the limit holds; who hung up is freed |
| `gate_any_event` | as above, 2 players, known and unknown flag words, kicks | no player serves two connections, a live connection reaches the player created for it and no other (the dry pool excepted, see section 2), a late disconnect does not unbind a newer holder of the id |
| `gate_pool_leak` (violation) | the words libevent really reports | the pool is empty although clients have left |
| `chat_route` | 2 clients, 2 descriptors, 3 servers of which 2 chat on 2 descriptors, 2 connections, 1 message with or without a handler; a recognised and an unrecognised word | an answer reaches the holder of the id or nobody; the first chat server gets the message once it has reported; a client that stays the holder is answered if its message has a handler |
| `chat_stale_answer` (violation) | 2 clients, 1 chat server, 1 connection, 1 message; the words libevent really reports | an answer reads the socket of a deleted NetObject |
| `node_registry` | 3 descriptors, 3 connections, limit 2, 2 server ids | entries lead to their reporters, everybody registered knows everybody's latest report, entries change for a reason only, the dead are forgotten; refinement of `Membership` |
| `node_unreported` (violation) | the same | a connection that ends unreported is a null dereference |
| `net_client` | the master and 2 gates, 2 points each, one shared; redial after 3 ticks; 3 descriptors, the lowest free one first; the master announces one gate or both; with and without `Init` | routing reaches a connected server, an event or a message is handled with the data of its own server, a lost connection is dialled again |
| `framing` | 3 messages, ids 1, 4, 6 modulo 4, bodies of 0 to 2 bytes | refinement of `MsgChannel`; a good message behind good ones comes out |
| `thread_pool` | 2 workers, 3 producers, 4 tasks, a queue of 1 | refinement of `TaskQueue`, no lost wake-up, submitted tasks are executed |
| `db_server` | 3 connection threads, 2 statements | nobody uses a deleted thread object, a stop always completes |
| `http_server` | 3 requests, 1 type, 2 paths, objects made one at a time, every filter and handler | objects are not shared and requests are answered exactly once, each under the conditions the code needs for it |

Bounds. Three connections over three descriptors and a limit of two are the
smallest in which a descriptor is closed and reused while another connection
lives and the table has been full. Two players for three connections make the
pool run dry and recycle. Two server ids for three connections contain two
servers that know each other and one that comes back under its id while its
old connection is still in the table. Two workers and three producers for one
slot are the smallest in which a producer that is notified may find the slot
taken again, and in which one worker exits early while the other works.
In `chat_route` two connections of three servers let a chat server leave, and a
server of either kind take its descriptor behind its entry; two clients let the
id pass on while an answer is under way. In `net_client` the two gates share the
hash value 4, and each has one of its own; the interval is at least the number
of servers and at most one tick falls into a walk (`ticked`): a walk takes
milliseconds and the interval is 10 seconds, so that one pass cannot be cut
cut short at a server more often than the pass can get past it. (With an interval
of 2 three servers can starve each other: every walk is cut short before the
third. The redial needs walks that are short against the interval.) Three
descriptors are one for each connection, and `LowestFirst` is what POSIX asks of
socket(): a descriptor that is dropped is the next to be handed out. In `framing` the id
4 becomes 0, pieces end at every byte, inside heads too, and three messages are
one before, one blocked or thrown over, and one behind. Three connection threads
are a first, a middle and a last one. Three requests for a pool that is filled
one object at a time reach a shared object after a refusal.
Descriptors, NetObjects, links and messages that run out end a behaviour, hence
`CHECK_DEADLOCK FALSE` where the model may stop for that reason or because of
`fault` or a stop.

Fairness. `Execute` and its return are weakly fair: the server threads loop for
ever and the event loop is called non-blocking. The event of a connection whose
peer is gone is strongly fair: each pass polls every descriptor, so such a
connection cannot be passed over in infinitely many passes, though it is not
enabled between passes. Peers need not hang up, clients need not come. In
`ChatRoute` the chat server's own loop is weakly fair and the answer's arrival
strongly, since the node server's turn comes in every round of the gate's loop.
In `NetClient` walks begin, visit and end, and the clock ticks. In `Framing` TCP
delivers what was written and libevent reports it; handlers end. In ThreadPool
and `DBServer` every thread that can run does; `Put` is strongly fair because a
woken producer competes for the mutex again and again; nothing forces `Run`,
`Stop` or the signal. `WaitingTaskIsExecuted` excepts a stopped pool and the case
that all workers left before `Start` set `m_bRunning`, both of which the code
allows. In `HttpServer` a handler that defers its answer gives it some day: an
assumption about the application.

Conditions inside properties. `ObjectsAreNotShared` excepts filters that refuse
or throw and handlers that throw after they have answered or kept the object: the
code then pushes an object back twice, or while it is kept. `AnsweredExactlyOnce` excepts the last two, which answer
twice, and the combination of a refusing filter with a deferring handler: two
requests then share an object, and an answer given later goes to the wrong one.
`AskerIsAnswered` excepts a broken connection, a newer holder of the id and a
message without a handler. `RoutedToOwnPlayer` excepts connections the empty pool
had no player for, as described in section 2.

## 4. What disagrees with the code's own words

* `gate_pool_leak`: the switch in `OnSocketClientEvent` compares whole flag words;
  libevent never reports a bare EOF or ERROR on an accepted socket. The player
  of a client that leaves is not given back, until "Client Player full, Obj Used
  Out!" is logged with nobody connected.
* `node_unreported`: `OnClientDisconnect` names the server that left through a
  pointer that is null when the socket has no entry.

* `chat_stale_answer`: a consequence of the first. `ClientPlayer.h:33` says of
  `m_pNetObject` "store player socket info"; a player that was never destroyed keeps
  its id and this pointer, and `OnChatRouteBack` then reads the socket through a
  NetObject that NFNet has deleted (`fault`).

In that last case the route's safety properties hold all the same,
for every flag word: such an answer reaches nobody.

## 5. Proofs

All theorems are about every value of the constants under the assumptions the
modules declare: finite descriptors, a natural limit, events that carry a cause
(`NFNetAssumption`); a natural pool size and a null that is no object
(`GateAssumption`); server ids that are positive, since 0 is what
`OnClientDisconnect` passes when it finds nothing (`RegistryAssumption`); finitely
many numbered servers and outcomes that are no NetObjects (`ChatRouteAssumption`);
a hash point of its own for each server (`PrivatePointsAssumption`, true of the
configured ids) and lists that do not name the master (`NetClientAssumption`);
lengths whose frames fit an `int` (`FramingAssumption`);
disjoint workers and producers (`ThreadPoolAssumption`); at least one connection
thread (`DBServerAssumption`); finitely many requests, growth of the pool by at least one
(`HttpAssumption`).

Two kinds of theorem stand beside the invariants and action properties of the
runs. Liveness is out of the prover's reach, so for each promise of that kind
there is a theorem for its safety half: what waits is not lost on the
way (no connection deaf to its end, no task, request or chat message dropped, no
complete message left in the buffer, no thread waited for that was not told to
leave). Others say what a component comes to for every
value of the constants: consistent hashing, the statement that is executed for
ever, the causes of a fault, the dead ends of a dial. And the servers implement
the NFNet they sit on (`GateRunsTheNet`, `RegisterRunsTheNet`), so that its
theorems hold in the compositions too.

* **NFNet.** `NetInv` is `NetTypeOK`, `TableMatchesHeap` and `RemovalsMatchMarks`
  plus `MarksAreBorn` (only created objects are marked). The last is what makes it
  inductive: a new connection must not find itself marked. From it follow
  `NetTypeCorrect`, `NetInvariance`, `MarksAreQueued`, `OnlyMarkedFreed` (an action
  property) and, with a count of the table, `ConnectionsBounded`. `MarkedGoAtOnce`:
  a pass deletes exactly the marked. `NoDeafConnection`: an unmarked connection has
  events armed on both sides.
* **GatePlayers.** `GateInv` adds to `PoolExclusive` and `RoutedToOwnPlayer` that
  pointers lead to objects that were created, that a socket entry's player
  points to an object with that descriptor, and that an id entry's player has
  that id. Without the second, `DestoryPlayer` could erase another player's
  socket; without the third, leave its own id behind. Theorems:
  `GateTypeCorrect`, `PoolStaysExclusive`, `RoutingIsOwn`, `IdIsKept`. The second
  direction of `RoutedToOwnPlayer` needs that no player points to a connection the
  empty pool turned away (`UnservedHaveNone`).
* **ChatRoute.** `ChatInv` adds to `GateInv` that players in use have the one id
  there is, that its holder was created for the newest connection, that a server
  that has reported has an entry with its own descriptor, and that no two
  servers share one. Theorems: `ChatTypeCorrect`, `AnswersReachNewest`, and, with
  the invariant that what is in flight was sent, `ReportedServerGetsIt`. `RouteInv`
  adds that each message is on the wires at most once and on those of one server
  (`PacketsInOnePlace`), and there exactly while its client waits. A packet taken
  off a wire would else leave a second one behind that is answered again. Theorems:
  `WaitingIsOnItsWay`, `AnsweredAtMostOnce`, for messages with and without a
  handler. Both end with a fault, which is the end
  of the process.
* **NodeRegistry.** `RegInv` adds to `RegistryLeadsToReporter` and
  `RegisteredKnowEachOther` that entries lead to unmarked connections (else the
  next `Execute` would leave an entry dangling) and that an accepted connection
  has a server at its other end. A descriptor then has at most one entry, so
  the first match is the only one. Theorems: `RegTypeCorrect`, `RegistryIsSound`,
  `EverybodyIsTold`, `EntriesAreKept`, and `RegistryImplementsMembership`: each step
  maps to a join, an end or a stutter. `ReportedStaysEntered`: a server with one
  session in all is registered until that session ends. From it
  `FaultHasOneOfThreeCauses`: the null pointer of section 4 is read for a connection
  that never reported, that was closed before, or whose server reported over
  another one as well, and for no other reason. With `NoDeafConnection`, `NoEntryIsDeaf`:
  the end of every connection in the register is still to be heard.
* **NetClient.** `ClientInv` says of each ring which points it has and whose they
  are (`GoodRing`: every member holds its own points, every point leads to a
  member), relates the state of a connection to its socket, and says that no two
  connections hold one descriptor (`DistinctSockets`), without which the lookup by
  descriptor could find another server first. The lowest hash value exists because
  sets of naturals have minima. Theorems: `ClientTypeCorrect`, `SocketsLeadHome`,
  `RoutingReachesNormal`. A key is led to the server at one point
  of the ring (`PointOf`, the first at or after the key); adding or removing points
  moves only keys whose point is added or removed (`JoinTakes`, `LeaveGives`):
  `RoutesAreConsistent`. `OnlyTwoDeadEnds`: only a connect() that failed at once, or
  without Init a connection that ended, is never dialled again.
* **Framing.** `FramingInv` is the types, that frames adjoin, that their starts
  grow, and `BufferAligned`: the front of the buffer is the start of the frame
  after those delivered. Theorems: `FramingTypeCorrect`, `FramingIsChannel`. The loop
  of Dismantle ends only at an incomplete or abnormal message: `NothingWaitsInBuffer`.
* **ThreadPool.** `Inv` is `TypeOK`, `SleepersHaveReason`, `ExecutedAtMostOnce` and
  `HoldsWhereItShould` (which program points hold a task). Theorems:
  `TypeCorrect`, `NoLostWakeUp`, `AtMostOnce`, and `ImplementsTaskQueue`: `Inv` lets
  each step be mapped to a step of `TaskQueue` or a stutter. A task that was handed
  in is executed, queued or in somebody's hands: `NothingLost`; after the stop
  nobody sleeps on the empty queue: `StopWakesWorkers`.
* **DBServer.** `DBInv` is `ThreadsTypeOK` plus where main is: threads it has not
  reached yet have not begun, nothing is deleted before it stops the server
  thread, and then exactly the ConnThreads before the one it is at, all of them
  finished (`MainsProgress`, `ServerIsJoined`, `DeletedHaveFinished`); a finished
  ConnThread has closed its connection. Theorems: `ThreadsTypeCorrect`,
  `DeletedAreUnused`, for any number of connection threads. With main's order of
  creating and stopping (`StoppingInv`): `StopLeavesNothing`. Since `IsFree` is TRUE
  and `front()` never popped: `FirstStatementForEver`.
* **HttpServer.** `HttpInv` adds to the properties that a request keeps at most one
  object (`KeptOnce`) and that the pool has grown no more than the requests that
  arrived can have made it grow (`GrownByRequests`; it bounds the indices, without
  which the types would not be inductive). While nobody answers twice and no filter
  refuses, the pool is injective and disjoint from what is kept: taking the front
  and pushing back an object that is not in it keep that (`FrontLeaves`,
  `BackJoins`). Theorems: `HttpTypeCorrect`, `ObjectsStayApart`, `NoRequestForgotten`,
  the last also when a filter refuses but no handler defers.

Model-checked only: everything under fairness (`HungUpIsFreed`,
`DeadNodeIsForgotten`, `AskerIsAnswered`, `LostIsRedialled`,
`CompleteFramesArrive`, `WaitingTaskIsExecuted`, `StopCompletes`,
`AnsweredExactlyOnce`), since the prover does not handle ENABLED. Every other
property of a passing run is a theorem. That hashing computes the values it does
is no theorem either: hash values are constants here.

## 6. Left for later

* A composition of `NodeRegistry` with several `NetClient`s: every server is in
  the end connected to every announced server of a wanted type. Each half of it
  is checked alone: that the list reaches every member (`RegisteredKnowEachOther`)
  and that an announced server is dialled and dialled again (`NetClient`).
* Addresses that change under a known id, which needs a promise to check against.

## 7. Not modelled

* Contents of messages and reports, logging, buffer sizes, socket options; sends
  to lists of connections, which repeat the single send; sends that fail inside
  libevent; the exit paths of the processes (`Destory`, `Final`).
* NFNetModule on its own: it passes callbacks through, and its `KeepAlive` sends
  nothing, as the body is commented out.
* NFHttpClient, LibEventTimer, ObjPool, MemPool, BlockQueue: no server uses them.
* Redis (one blocking command per call), configuration, design tables, packet
  tables (filled before main, read afterwards), the test client and the tools.
* Third-party and generated code: protobuf, libevent, jsoncpp, mariadb, redis and
  others, about 99 % of the lines in `src/`. libevent, the kernel's descriptors and
  the peers are external and appear only through the callbacks and choices
  described above. This is why the share of all lines that the modules map is
  so small.

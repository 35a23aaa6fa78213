------------------------------ MODULE NetClient ------------------------------
(***************************************************************************)
(* The outgoing connections of a server: NFNetClientModule (src/Common/    *)
(* NFComm/NFNetPlugin/NFNetClientModule.cpp), NetClientBase, which reports *)
(* itself on every connection and adds the servers the master announces,   *)
(* and the client role of NFNet under them.                                *)
(*                                                                         *)
(* One thread calls Execute.  Each call walks mxServerMap with the map's   *)
(* only cursor (mObjectCurIter) and lets the connection of every server    *)
(* run its event loop; it then adds the servers announced meanwhile.  One  *)
(* visit of the walk is one step: peers and the clock move in between.     *)
(*                                                                         *)
(* NFNetClientModule::Init binds OnSocketEvent, which moves the state of   *)
(* a connection.  The class leaves it to its owner to call Init, and       *)
(* NetClientBase does not: mInitCalled tells the two kinds of owner apart. *)
(*                                                                         *)
(* time(0) and mnLastActionTime only matter by their difference, kept here *)
(* per server and cut off where the comparisons no longer see it.          *)
(***************************************************************************)
EXTENDS HashRing, FiniteSets

CONSTANTS
    Master,         \* the id under which AddConnectMaster adds the master
    Types,          \* EServerType
    TypeOf,         \* the type of each server
    Keys,           \* the hash values messages are routed by
    Interval,       \* 10, the seconds of KeepState and of a redial
    Wirings,        \* whether the owner calls Init
    Lists,          \* the lists of servers to connect to that the master may send
    FDs,            \* the descriptors there are for these connections
    NoFd,           \* none
    LowestFirst     \* bound: socket() hands out the lowest free one, as POSIX has it

ASSUME NetClientAssumption ==
    /\ Master \in Ids
    /\ TypeOf \in [Ids -> Types]
    /\ Keys \subseteq Nat
    /\ Interval \in Nat \ {0}
    /\ Wirings \subseteq BOOLEAN
    /\ Lists \subseteq SUBSET (Ids \ {Master})
    /\ FDs \subseteq Nat /\ NoFd \notin FDs
    /\ LowestFirst \in BOOLEAN

VARIABLES
    mInitCalled,    \* Init has been called
    eState,         \* ConnectData::eState; "UNKNOWN" for ids not in mxServerMap
    socket,         \* what mxNetModule holds: "none" (no module), "failed" (InitClientNet
                    \*   returned -1), "dialing", "up", "closed" (its event was delivered)
    age,            \* time(0) - mnLastActionTime, up to Interval + 1
    mxTempNetList,  \* the ids of the servers to add
    mxEServerTypeMap, \* per type, the ring of connected servers
    mObjectCurIter, \* the server the walk visits next, or Idle or AtEnd
    ticked,         \* a second has passed since the last walk began
    lost,           \* connections whose peer has hung up (network)
    realFD          \* per server, the descriptor its NetObject holds

clientVars == <<mInitCalled, eState, socket, age, mxTempNetList, mxEServerTypeMap,
                mObjectCurIter, ticked, lost, realFD>>

Idle  == -1         \* outside Execute
AtEnd == -2         \* mObjectList.end()

Known == {id \in Ids : eState[id] # "UNKNOWN"}

(* AddConnectMaster comes before the first Execute. *)
ClientInit ==
    /\ mInitCalled \in Wirings
    /\ eState = [id \in Ids |-> "UNKNOWN"]
    /\ socket = [id \in Ids |-> "none"]
    /\ age = [id \in Ids |-> 0]
    /\ mxTempNetList = {Master}
    /\ mxEServerTypeMap = [t \in Types |-> EmptyRing]
    /\ mObjectCurIter = Idle
    /\ ticked = FALSE
    /\ lost = {}
    /\ realFD = [id \in Ids |-> NoFd]

-----------------------------------------------------------------------------
(* NFMapEx::Next from the entry of id; std::map keeps its keys in order. *)
FirstOf(ids) == IF ids = {} THEN AtEnd ELSE CHOOSE id \in ids : \A i \in ids : id <= i

NextAfter(id) == FirstOf({i \in Known : i > id})

Advance(id) == mObjectCurIter' = NextAfter(id)

(* OnSocketEvent, if Init bound it. *)
OnConnected(id) ==
    IF mInitCalled
    THEN /\ eState' = [eState EXCEPT ![id] = "NORMAL"]
         /\ mxEServerTypeMap' = [mxEServerTypeMap EXCEPT ![TypeOf[id]] = AddElement(@, id)]
    ELSE UNCHANGED <<eState, mxEServerTypeMap>>

OnDisConnected(id) ==
    IF mInitCalled
    THEN /\ eState' = [eState EXCEPT ![id] = "DISCONNECT"]
         /\ age' = [age EXCEPT ![id] = 0]
         /\ mxEServerTypeMap' = [mxEServerTypeMap EXCEPT ![TypeOf[id]] = RemoveElement(@, id)]
    ELSE UNCHANGED <<eState, age, mxEServerTypeMap>>

(* KeepState at the end of the visit of a NORMAL server: once in Interval  *)
(* seconds LogServerInfo walks the same map with the same cursor, and      *)
(* leaves it at the end.                                                   *)
KeepState_NoReset(id) ==        \* slip: mnLastActionTime is not set
    IF eState[id] = "NORMAL" /\ age[id] >= Interval
    THEN mObjectCurIter' = AtEnd /\ UNCHANGED age
    ELSE Advance(id) /\ UNCHANGED age

KeepState(id) ==
    IF eState[id] = "NORMAL" /\ age[id] >= Interval
    THEN age' = [age EXCEPT ![id] = 0] /\ mObjectCurIter' = AtEnd
    ELSE Advance(id) /\ UNCHANGED age

(* NFNet::GetNetObject of the module of id: the object is stored under key  *)
(* 0, and looked for by its real descriptor.                                *)
HasObject(id) == socket[id] \in {"dialing", "up", "closed"}

GetNetObject(id, fd) == HasObject(id) /\ realFD[id] = fd

(* The first server, in the order of the ids, whose module has an object    *)
(* with the descriptor; AtEnd for a null pointer.                           *)
GetServerNetInfo(fd) == FirstOf({id \in Known : GetNetObject(id, fd)})

(* A module's destructor closes its socket. *)
DropModule_Not(id) ==           \* slip: mxNetModule is not reset
    UNCHANGED <<socket, realFD, lost>>

DropModule(id) ==
    /\ socket' = [socket EXCEPT ![id] = "none"]
    /\ realFD' = [realFD EXCEPT ![id] = NoFd]
    /\ lost' = lost \ {id}

(* Descriptors that no connection holds; one that has ended holds its own   *)
(* until its module is dropped.                                             *)
FreeFDs_EndCloses ==            \* slip: the end of a connection closes its socket
    FDs \ {realFD[id] : id \in {i \in Ids : socket[i] # "closed"}}

FreeFDs == FDs \ {realFD[id] : id \in Ids}

(* What socket() may return for each of ids. *)
NewFDs(ids) ==
    {fd \in [ids -> FreeFDs] :
        /\ \A i, j \in ids : fd[i] = fd[j] => i = j
        /\ LowestFirst => \A i \in ids, f \in FreeFDs : f < fd[i] => \E j \in ids : fd[j] = f}

(* NFNetModule and NFNet::InitClientNet for the servers of ids: connect()  *)
(* may fail at once (no route, a bad address, no descriptor left), and then *)
(* no event follows.                                                        *)
NewModules(ids) ==
    \E failed \in SUBSET ids : \E fd \in NewFDs(ids \ failed) :
        /\ socket' = [id \in Ids |-> IF id \in failed THEN "failed"
                                     ELSE IF id \in ids THEN "dialing" ELSE socket[id]]
        /\ realFD' = [id \in Ids |-> IF id \in ids \ failed THEN fd[id] ELSE realFD[id]]

-----------------------------------------------------------------------------
(* Execute begins: mxServerMap.First(). *)
ExecuteBegins ==
    /\ mObjectCurIter = Idle
    /\ mObjectCurIter' = FirstOf(Known)
    /\ ticked' = FALSE
    /\ UNCHANGED <<mInitCalled, eState, socket, age, mxTempNetList, mxEServerTypeMap,
                   lost, realFD>>

(* case DISCONNECT. *)
VisitDisconnect(id) ==
    /\ eState[id] = "DISCONNECT"
    /\ DropModule(id)
    /\ eState' = [eState EXCEPT ![id] = "RECONNECT"]
    /\ Advance(id)
    /\ UNCHANGED <<mInitCalled, age, mxTempNetList, mxEServerTypeMap, ticked>>

(* case RECONNECT. *)
VisitReconnectWaits(id) ==
    /\ eState[id] = "RECONNECT"
    /\ age[id] <= Interval
    /\ Advance(id)
    /\ UNCHANGED <<mInitCalled, eState, socket, age, mxTempNetList, mxEServerTypeMap,
                   ticked, lost, realFD>>

VisitReconnect(id) ==
    /\ eState[id] = "RECONNECT"
    /\ age[id] > Interval
    /\ eState' = [eState EXCEPT ![id] = "CONNECTING"]
    /\ NewModules({id})
    /\ Advance(id)
    /\ UNCHANGED <<mInitCalled, age, mxTempNetList, mxEServerTypeMap, ticked, lost>>

(* cases CONNECTING and NORMAL: mxNetModule->Execute().  conn_eventcb, when *)
(* the connection is established...                                        *)
VisitConnected(id) ==
    /\ eState[id] \in {"CONNECTING", "NORMAL"}
    /\ socket[id] = "dialing"
    /\ socket' = [socket EXCEPT ![id] = "up"]
    /\ OnConnected(id)
    /\ Advance(id)
    /\ UNCHANGED <<mInitCalled, age, mxTempNetList, ticked, lost, realFD>>

(* ...when it is refused, or has ended.  CloseNetObject looks for the real *)
(* descriptor among the keys and finds nothing: the object stays, under key *)
(* 0, and holds its descriptor.                                             *)
VisitDisConnected(id) ==
    /\ eState[id] \in {"CONNECTING", "NORMAL"}
    /\ socket[id] = "dialing" \/ id \in lost
    /\ socket' = [socket EXCEPT ![id] = "closed"]
    /\ lost' = lost \ {id}
    /\ OnDisConnected(id)
    /\ Advance(id)
    /\ UNCHANGED <<mInitCalled, mxTempNetList, ticked, realFD>>

(* OnMasterMessage: the servers of the list this server connects to. *)
VisitMasterMessage(ids) ==
    /\ mObjectCurIter = Master
    /\ eState[Master] \in {"CONNECTING", "NORMAL"}
    /\ socket[Master] = "up" /\ Master \notin lost
    /\ mxTempNetList' = mxTempNetList \cup ids
    /\ KeepState(Master)
    /\ UNCHANGED <<mInitCalled, eState, socket, mxEServerTypeMap, ticked, lost, realFD>>

(* No event in this pass of the server's event loop. *)
VisitQuiet(id) ==
    /\ eState[id] \in {"CONNECTING", "NORMAL"}
    /\ id \notin lost
    /\ KeepState(id)
    /\ UNCHANGED <<mInitCalled, eState, socket, mxTempNetList, mxEServerTypeMap, ticked,
                   lost, realFD>>

Visit(id) ==
    /\ mObjectCurIter = id
    /\ \/ VisitDisconnect(id)
       \/ VisitReconnectWaits(id)
       \/ VisitReconnect(id)
       \/ VisitConnected(id)
       \/ VisitDisConnected(id)
       \/ VisitQuiet(id)

(* ProcessAddNetConnect: a known id only takes over nWorkLoad. *)
ProcessAddNetConnect ==
    /\ mObjectCurIter = AtEnd
    /\ mObjectCurIter' = Idle
    /\ LET new == mxTempNetList \ Known IN
         /\ eState' = [id \in Ids |-> IF id \in new THEN "CONNECTING" ELSE eState[id]]
         /\ age' = [id \in Ids |-> IF id \in new THEN 0 ELSE age[id]]
         /\ NewModules(new)
    /\ mxTempNetList' = {}
    /\ UNCHANGED <<mInitCalled, mxEServerTypeMap, ticked, lost>>

-----------------------------------------------------------------------------
(* The peer of a connection hangs up, or its process dies. *)
PeerHangsUp(id) ==
    /\ socket[id] = "up"
    /\ id \notin lost
    /\ lost' = lost \cup {id}
    /\ UNCHANGED <<mInitCalled, eState, socket, age, mxTempNetList, mxEServerTypeMap,
                   mObjectCurIter, ticked, realFD>>

(* A second passes.  A walk is much shorter: at most one passes between    *)
(* the beginnings of two walks.                                            *)
Tick ==
    /\ ~ticked
    /\ ticked' = TRUE
    /\ age' = [id \in Ids |-> IF id \in Known /\ age[id] <= Interval
                              THEN age[id] + 1 ELSE age[id]]
    /\ UNCHANGED <<mInitCalled, eState, socket, mxTempNetList, mxEServerTypeMap,
                   mObjectCurIter, lost, realFD>>

ClientNext ==
    \/ ExecuteBegins
    \/ \E id \in Ids : Visit(id)
    \/ \E ids \in Lists : VisitMasterMessage(ids)
    \/ ProcessAddNetConnect
    \/ \E id \in Ids : PeerHangsUp(id)
    \/ Tick

ClientSpec == ClientInit /\ [][ClientNext]_clientVars

(* The server thread calls Execute for ever, each call visits what its     *)
(* cursor reaches and returns, and time passes.                            *)
ClientFairness ==
    /\ WF_clientVars(ExecuteBegins)
    /\ WF_clientVars(\E id \in Ids : Visit(id))
    /\ WF_clientVars(ProcessAddNetConnect)
    /\ WF_clientVars(Tick)

ClientFairSpec == ClientSpec /\ ClientFairness

-----------------------------------------------------------------------------
(* Types; a server has no NFNetModule exactly while it waits for a redial  *)
(* (or is unknown), and without Init no server ever leaves CONNECTING.     *)
ClientTypeOK ==
    /\ mInitCalled \in BOOLEAN
    /\ eState \in [Ids -> {"UNKNOWN", "DISCONNECT", "CONNECTING", "NORMAL", "RECONNECT"}]
    /\ socket \in [Ids -> {"none", "failed", "dialing", "up", "closed"}]
    /\ age \in [Ids -> 0 .. Interval + 1]
    /\ mxTempNetList \subseteq Ids
    /\ DOMAIN mxEServerTypeMap = Types
    /\ mObjectCurIter \in Ids \cup {Idle, AtEnd}
    /\ ticked \in BOOLEAN
    /\ lost \subseteq {id \in Ids : socket[id] = "up"}
    /\ realFD \in [Ids -> FDs \cup {NoFd}]
    /\ \A id \in Ids : realFD[id] = NoFd <=> socket[id] \in {"none", "failed"}
    /\ \A id \in Ids : socket[id] = "none" <=> eState[id] \in {"UNKNOWN", "RECONNECT"}
    /\ ~mInitCalled => \A id \in Known : eState[id] = "CONNECTING"

NormalOf(t) == {id \in Ids : TypeOf[id] = t /\ eState[id] = "NORMAL"}

(* Whatever joined and left before, and whatever hash values servers have  *)
(* in common: a message routed by any key reaches a server of the type     *)
(* whose connection is up, as long as there is one, and no server at all   *)
(* otherwise.                                                              *)
SuitLeadsToNormal ==
    \A t \in Types, key \in Keys :
        LET id == GetElementBySuit(mxEServerTypeMap[t], key) IN
        IF NormalOf(t) = {} THEN id = NoNode
        ELSE id \in NormalOf(t) /\ socket[id] = "up"

(* An event or a message is handled with the ConnectData GetServerNetInfo   *)
(* finds for its descriptor: it is that of the very server it came from,    *)
(* never null and never that of another server whose ended connection still *)
(* holds its object, for as long as that server is not dialled again (which *)
(* without Init is for ever).  So the lookup also leaves the walk's cursor, *)
(* which it moves, on the server being visited.                             *)
SockLeadsToItsServer ==
    \A id \in Ids : HasObject(id) => GetServerNetInfo(realFD[id]) = id

(* With Init called, a server whose connection was lost is dialled again:  *)
(* the cursor that LogServerInfo takes away from the walk starves no       *)
(* server, and no state is left for good.                                  *)
LostIsRedialled ==
    \A id \in Ids : (mInitCalled /\ id \in lost) ~> (eState[id] = "CONNECTING")
=============================================================================

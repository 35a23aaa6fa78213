----------------------------- MODULE GatePlayers -----------------------------
(***************************************************************************)
(* The gate's player server: an NFNet (module NFNet) whose events reach    *)
(* GatePlayerServer (src/GateServer/NodeNet/GatePlayerServer.cpp), which   *)
(* keeps one ClientPlayer per client socket in ClientPlayerMgr             *)
(* (src/GateServer/ClientPlayer/ClientPlayerMgr.cpp): a pool of free       *)
(* players, the map from sockets to players and the map from player ids to *)
(* players.  All of it runs on the gate's server thread, inside the event  *)
(* callbacks of NFNet.                                                     *)
(***************************************************************************)
EXTENDS NFNet, Sequences

CONSTANTS
    MaxPlayer,      \* MAX_PLAYER, the size of the pool
    Null,           \* the null pointer
    OwnerKicks      \* whether anybody calls KickPlayer and KickPlayerAllPlayer

Players   == 1 .. MaxPlayer
DefaultId == 1      \* the id every new player is given until there is a login

ASSUME GateAssumption ==
    /\ MaxPlayer \in Nat
    /\ Null \notin Objs
    /\ OwnerKicks \in BOOLEAN

VARIABLES
    mNonPlayerList, \* free players, in the order they will be handed out
    mPlayerSockMap, \* socket -> player
    mPlayerIDMap,   \* player id -> player
    m_pNetObject,   \* per player, the NetObject it points to
    m_PlayerId,     \* per player, its id (0 before the first SetPlayerId)
    fault,          \* a freed or null NetObject was dereferenced
    unserved        \* history: connections that found the pool empty

playerVars == <<mNonPlayerList, mPlayerSockMap, mPlayerIDMap, m_pNetObject,
                m_PlayerId, fault, unserved>>
gateVars == <<netVars, playerVars>>

GateInit ==
    /\ NetInit
    /\ mNonPlayerList = [i \in Players |-> i]
    /\ mPlayerSockMap = [fd \in {} |-> 1]
    /\ mPlayerIDMap = [id \in {} |-> 1]
    /\ m_pNetObject = [p \in Players |-> Null]
    /\ m_PlayerId = [p \in Players |-> 0]
    /\ fault = FALSE
    /\ unserved = {}

-----------------------------------------------------------------------------
(* mPlayerSockMap[pNetObject->GetRealFD()] = pPlayer. *)
BindSocket_Insert(fd, p) ==     \* slip: insert() for the assignment
    mPlayerSockMap' = [f \in DOMAIN mPlayerSockMap \cup {fd} |->
                          IF f \in DOMAIN mPlayerSockMap THEN mPlayerSockMap[f] ELSE p]

BindSocket(fd, p) ==
    mPlayerSockMap' = [f \in DOMAIN mPlayerSockMap \cup {fd} |->
                          IF f = fd THEN p ELSE mPlayerSockMap[f]]

(* The id OnClientConnected gives a new player. *)
NewPlayerId_PoolIndex(p) == p   \* slip: GetId(), the place in the pool, for the player id

NewPlayerId(p) == DefaultId

AddPlayerIDMap_KeepsOlder(id, p) == \* slip: an id in use is not erased first
    /\ m_PlayerId' = [m_PlayerId EXCEPT ![p] = id]
    /\ mPlayerIDMap' = [i \in DOMAIN mPlayerIDMap \cup {id} |->
                           IF i \in DOMAIN mPlayerIDMap THEN mPlayerIDMap[i] ELSE p]

AddPlayerIDMap(id, p) ==
    IF id \in DOMAIN mPlayerIDMap /\ mPlayerIDMap[id] = p
    THEN UNCHANGED <<m_PlayerId, mPlayerIDMap>>
    ELSE /\ m_PlayerId' = [m_PlayerId EXCEPT ![p] = id]
         /\ mPlayerIDMap' = [i \in DOMAIN mPlayerIDMap \cup {id} |->
                                IF i = id THEN p ELSE mPlayerIDMap[i]]

(* CreatePlayer, then AddPlayerIDMap.  With an empty pool CreatePlayer      *)
(* returns null and no table changes: an entry a former owner of the socket *)
(* left stays in place, and o goes without a player of its own.            *)
OnClientConnected(fd, o) ==
    IF mNonPlayerList = <<>>
    THEN /\ unserved' = unserved \cup {o}
         /\ UNCHANGED <<mNonPlayerList, mPlayerSockMap, mPlayerIDMap, m_pNetObject,
                        m_PlayerId, fault>>
    ELSE LET p == Head(mNonPlayerList) IN
         /\ mNonPlayerList' = Tail(mNonPlayerList)
         /\ m_pNetObject' = [m_pNetObject EXCEPT ![p] = o]
         /\ BindSocket(fd, p)
         /\ AddPlayerIDMap(NewPlayerId(p), p)
         /\ UNCHANGED <<fault, unserved>>

(* GetSockFd reads through m_pNetObject. *)
Dangling(p) == m_pNetObject[p] \notin Live

(* The player's entry in the id map, if the id still leads to it. *)
OwnIds_Anyones(p) ==            \* slip: pPlayer == iditer->second is not tested
    {id \in DOMAIN mPlayerIDMap : id = m_PlayerId[p]}

OwnIds(p) == {id \in DOMAIN mPlayerIDMap : id = m_PlayerId[p] /\ mPlayerIDMap[id] = p}

ForgetSocket_Not(p) ==          \* slip: mPlayerSockMap.erase is missing
    UNCHANGED mPlayerSockMap

ForgetSocket(p) ==
    mPlayerSockMap' = [f \in DOMAIN mPlayerSockMap \ {objFd[m_pNetObject[p]]} |->
                          mPlayerSockMap[f]]

Recycle(p) == mNonPlayerList' = Append(mNonPlayerList, p)

DestoryPlayer(p) ==
    IF Dangling(p)
    THEN /\ fault' = TRUE
         /\ UNCHANGED <<mNonPlayerList, mPlayerSockMap, mPlayerIDMap, m_pNetObject,
                        m_PlayerId, unserved>>
    ELSE /\ ForgetSocket(p)
         /\ m_pNetObject' = [m_pNetObject EXCEPT ![p] = Null]
         /\ mPlayerIDMap' = [id \in DOMAIN mPlayerIDMap \ OwnIds(p) |-> mPlayerIDMap[id]]
         /\ Recycle(p)
         /\ UNCHANGED <<m_PlayerId, fault, unserved>>

OnClientDisconnect(fd) ==
    IF fd \in DOMAIN mPlayerSockMap
    THEN DestoryPlayer(mPlayerSockMap[fd])
    ELSE UNCHANGED playerVars

(* The switch compares the whole flag word with EOF, ERROR and TIMEOUT: a  *)
(* word that also carries READING or WRITING falls to its default.         *)
EndsConnection(ev) == \E c \in Causes : ev = {c}

OnSocketClientEvent(fd, ev) ==
    IF EndsConnection(ev) THEN OnClientDisconnect(fd) ELSE UNCHANGED playerVars

-----------------------------------------------------------------------------
ClientConnects(fd, o) == ListenerCb(fd, o) /\ OnClientConnected(fd, o)
ClientRefused(fd)     == ListenerCbReturns(fd) /\ UNCHANGED playerVars
ClientEvent(o, ev)    == ConnEventCb(o, ev) /\ OnSocketClientEvent(objFd[o], ev)
KickPlayer(fd)        == OwnerKicks /\ Kick(fd) /\ UNCHANGED playerVars
KickPlayerAllPlayer   == OwnerKicks /\ KickAll /\ UNCHANGED playerVars
ClientHangsUp(o)      == PeerCloses(o) /\ UNCHANGED playerVars
LoopStarts            == Execute /\ UNCHANGED playerVars
LoopReturns           == ExecuteReturns /\ UNCHANGED playerVars

GateNext ==
    /\ ~fault
    /\ \/ LoopStarts
       \/ LoopReturns
       \/ \E fd \in FDs, o \in Objs : ClientConnects(fd, o)
       \/ \E fd \in FDs : ClientRefused(fd)
       \/ \E o \in Objs, ev \in Events : ClientEvent(o, ev)
       \/ \E fd \in FDs : KickPlayer(fd)
       \/ KickPlayerAllPlayer
       \/ \E o \in Objs : ClientHangsUp(o)

GateSpec == GateInit /\ [][GateNext]_gateVars

-----------------------------------------------------------------------------
(* Types of the player tables. *)
GateTypeOK ==
    /\ NetTypeOK
    /\ mNonPlayerList \in Seq(Players)
    /\ mPlayerSockMap \in UNION {[D -> Players] : D \in SUBSET FDs}
    /\ mPlayerIDMap \in UNION {[D -> Players] : D \in SUBSET {DefaultId}}
    /\ m_pNetObject \in [Players -> Objs \cup {Null}]
    /\ m_PlayerId \in [Players -> {0, DefaultId}]
    /\ fault \in BOOLEAN
    /\ unserved \subseteq Objs

FreePlayers == {mNonPlayerList[i] : i \in DOMAIN mNonPlayerList}

(* No ClientPlayer is ever handed to two connections: the free list holds  *)
(* no player twice, no free player is still reachable through a map or     *)
(* still points to a NetObject, and two sockets never share a player.      *)
PoolExclusive ==
    /\ \A i, j \in DOMAIN mNonPlayerList : mNonPlayerList[i] = mNonPlayerList[j] => i = j
    /\ \A p \in FreePlayers : m_pNetObject[p] = Null
    /\ \A fd \in DOMAIN mPlayerSockMap : mPlayerSockMap[fd] \notin FreePlayers
    /\ \A id \in DOMAIN mPlayerIDMap : mPlayerIDMap[id] \notin FreePlayers
    /\ \A f, g \in DOMAIN mPlayerSockMap : mPlayerSockMap[f] = mPlayerSockMap[g] => f = g

(* OnOtherMessage looks a connection's player up by its descriptor.  The    *)
(* player created for a live connection is the one its descriptor leads to. *)
PlayerIsUnderItsSocket ==
    \A p \in Players :
        m_pNetObject[p] \in Live =>
            LET fd == objFd[m_pNetObject[p]]
            IN  fd \in DOMAIN mPlayerSockMap /\ mPlayerSockMap[fd] = p

(* And the other way round: whatever disconnects were missed before, the    *)
(* descriptor of a live connection never leads to a player left by a former *)
(* owner of the descriptor.  The one exception: a connection the empty pool *)
(* had no player for, which CreatePlayer leaves to the player of an owner   *)
(* that is gone; it never gets the player of a connection that lives.       *)
RoutedToOwnPlayer ==
    /\ PlayerIsUnderItsSocket
    /\ \A o \in Live :
          objFd[o] \in DOMAIN mPlayerSockMap =>
              LET owner == m_pNetObject[mPlayerSockMap[objFd[o]]]
              IN  owner = o \/ (o \in unserved /\ owner \notin Live)

(* A player loses the id it holds only to a newer connection or when it is *)
(* itself destroyed: the late disconnect of an older connection with the   *)
(* same id does not unbind the newer one.                                  *)
IdStaysWithHolder ==
    [][ \A id \in DOMAIN mPlayerIDMap :
          LET p == mPlayerIDMap[id] IN
          \/ id \in DOMAIN mPlayerIDMap' /\ mPlayerIDMap'[id] = p
          \/ p \in {mNonPlayerList'[i] : i \in DOMAIN mNonPlayerList'}
          \/ \E o \in Objs : objState[o] = "new" /\ objState'[o] = "live"
                              /\ m_pNetObject'[mPlayerIDMap'[id]] = o ]_gateVars

(* The comment at the empty pool reads "Client Player full, Obj Used Out!": *)
(* when the pool is empty every player belongs to a connection that lives. *)
PoolEmptyMeansFull ==
    mNonPlayerList = <<>> => \A p \in Players : m_pNetObject[p] \in Live

(* ClientPlayer.h says of m_pNetObject "store player socket info": whoever  *)
(* reads a socket through it (GetSockFd) finds a NetObject that lives.      *)
SocketInfoIsThere == ~fault
=============================================================================

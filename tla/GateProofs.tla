------------------------------ MODULE GateProofs ------------------------------
(***************************************************************************)
(* Proofs about the gate: first GatePlayers, for every pool size, every    *)
(* set of descriptors and every flag word libevent may report, then        *)
(* ChatRoute on top of it, for every number of chat messages, connections, *)
(* players and servers.                                                    *)
(***************************************************************************)
EXTENDS ChatRoute, NFNetProofs, WellFoundedInduction

(* What ties the two maps to the players they lead to. *)
PointersAreBorn == \A p \in Players : m_pNetObject[p] \in Objs => objState[m_pNetObject[p]] # "new"

SocketsMatch ==
    \A fd \in DOMAIN mPlayerSockMap :
        LET o == m_pNetObject[mPlayerSockMap[fd]] IN o \in Objs /\ objFd[o] = fd

IdsMatch == \A id \in DOMAIN mPlayerIDMap : m_PlayerId[mPlayerIDMap[id]] = id

(* A connection that found the pool empty is given no player later. *)
UnservedHaveNone ==
    \A o \in unserved : objState[o] # "new" /\ \A p \in Players : m_pNetObject[p] # o

PlayersInv == /\ PoolExclusive /\ RoutedToOwnPlayer
              /\ PointersAreBorn /\ SocketsMatch /\ IdsMatch /\ UnservedHaveNone

GateInv == NetInv /\ GateTypeOK /\ PlayersInv

-----------------------------------------------------------------------------
(* Taking the first player of a list without repeats. *)
LEMMA HeadLeaves ==
    ASSUME NEW S, NEW s \in Seq(S), s # <<>>,
           \A i, j \in DOMAIN s : s[i] = s[j] => i = j
    PROVE  /\ Head(s) \in S /\ Tail(s) \in Seq(S)
           /\ Head(s) \in {s[i] : i \in DOMAIN s}
           /\ Head(s) \notin {Tail(s)[i] : i \in DOMAIN Tail(s)}
           /\ {Tail(s)[i] : i \in DOMAIN Tail(s)} \subseteq {s[i] : i \in DOMAIN s}
           /\ \A i, j \in DOMAIN Tail(s) : Tail(s)[i] = Tail(s)[j] => i = j
<1>1. Len(s) > 0 /\ Head(s) = s[1] /\ DOMAIN s = 1 .. Len(s) /\ Len(s) \in Nat
  OBVIOUS
<1>2. /\ Tail(s) \in Seq(S) /\ Len(Tail(s)) = Len(s) - 1
      /\ DOMAIN Tail(s) = 1 .. (Len(s) - 1)
      /\ \A i \in 1 .. (Len(s) - 1) : Tail(s)[i] = s[i + 1]
  BY <1>1
<1>3. \A i \in 1 .. (Len(s) - 1) : i + 1 \in DOMAIN s /\ i + 1 # 1
  BY <1>1
<1>4. \A i, j \in 1 .. (Len(s) - 1) : i + 1 = j + 1 => i = j
  BY <1>1
<1>5. Head(s) \in S
  BY <1>1
<1>6. 1 \in DOMAIN s
  BY <1>1
<1>7. Head(s) \notin {Tail(s)[i] : i \in DOMAIN Tail(s)}
  BY <1>1, <1>2, <1>3, <1>6
<1>8. \A i, j \in DOMAIN Tail(s) : Tail(s)[i] = Tail(s)[j] => i = j
  BY <1>2, <1>3, <1>4
<1> QED BY <1>1, <1>2, <1>3, <1>5, <1>6, <1>7, <1>8

(* Appending a player who is not in such a list. *)
LEMMA AppendKeeps ==
    ASSUME NEW S, NEW s \in Seq(S), NEW p \in S,
           \A i, j \in DOMAIN s : s[i] = s[j] => i = j,
           p \notin {s[i] : i \in DOMAIN s}
    PROVE  /\ Append(s, p) \in Seq(S)
           /\ {Append(s, p)[i] : i \in DOMAIN Append(s, p)} = {s[i] : i \in DOMAIN s} \cup {p}
           /\ \A i, j \in DOMAIN Append(s, p) : Append(s, p)[i] = Append(s, p)[j] => i = j
<1>1. /\ Append(s, p) \in Seq(S) /\ Len(s) \in Nat
      /\ DOMAIN s = 1 .. Len(s)
      /\ DOMAIN Append(s, p) = 1 .. (Len(s) + 1)
      /\ Append(s, p)[Len(s) + 1] = p
      /\ \A i \in 1 .. Len(s) : Append(s, p)[i] = s[i]
  OBVIOUS
<1>2. DOMAIN Append(s, p) = DOMAIN s \cup {Len(s) + 1}
  BY <1>1
<1> QED BY <1>1, <1>2

-----------------------------------------------------------------------------
(* The initial pool holds every player once. *)
LEMMA GateInitInv == GateInit => GateInv
<1> SUFFICES ASSUME GateInit PROVE GateInv
  OBVIOUS
<1> USE GateAssumption, NFNetAssumption DEF GateInit
<1>1. NetInv
  BY NetInitInv
<1>2. mNonPlayerList \in Seq(Players) /\ \A i \in DOMAIN mNonPlayerList : mNonPlayerList[i] = i
  BY DEF Players
<1>3. /\ DOMAIN mPlayerSockMap = {} /\ mPlayerSockMap \in [{} -> Players]
      /\ DOMAIN mPlayerIDMap = {} /\ mPlayerIDMap \in [{} -> Players]
  OBVIOUS
<1>4. GateTypeOK
  BY <1>1, <1>2, <1>3, {} \in SUBSET FDs, {} \in SUBSET {DefaultId} DEF GateTypeOK, NetInv
<1>5. PlayersInv
  <2>1. PoolExclusive
    BY <1>2, <1>3 DEF PoolExclusive, FreePlayers
  <2>2. RoutedToOwnPlayer /\ PointersAreBorn /\ SocketsMatch /\ IdsMatch /\ UnservedHaveNone
    BY <1>3 DEF RoutedToOwnPlayer, PlayerIsUnderItsSocket, PointersAreBorn, SocketsMatch, IdsMatch,
       UnservedHaveNone, Live
  <2> QED BY <2>1, <2>2 DEF PlayersInv
<1> QED BY <1>1, <1>4, <1>5 DEF GateInv

(* A step of the net that creates no object and leaves the players alone. *)
LEMMA NetStepInv ==
    ASSUME GateInv, NetInv', UNCHANGED <<playerVars, objFd>>,
           \A o \in Objs : /\ objState'[o] = "new" => objState[o] = "new"
                           /\ objState'[o] = "live" => objState[o] = "live"
    PROVE  GateInv'
<1>1. GateTypeOK'
  BY DEF GateInv, GateTypeOK, NetInv, playerVars
<1>2. Live' \subseteq Live
  BY DEF Live
<1>3. PlayersInv'
  <2>1. PoolExclusive' /\ PointersAreBorn' /\ SocketsMatch' /\ IdsMatch'
    BY DEF GateInv, PlayersInv, PoolExclusive, FreePlayers, PointersAreBorn, SocketsMatch, IdsMatch,
       playerVars, GateTypeOK
  <2>2. RoutedToOwnPlayer'
    BY <1>2 DEF GateInv, PlayersInv, RoutedToOwnPlayer, PlayerIsUnderItsSocket, playerVars
  <2>3. UnservedHaveNone'
    BY DEF GateInv, PlayersInv, UnservedHaveNone, playerVars, GateTypeOK
  <2> QED BY <2>1, <2>2, <2>3 DEF PlayersInv
<1> QED BY <1>1, <1>3 DEF GateInv

(* A client connects: the first free player becomes its player. *)
LEMMA ClientConnectsInv ==
    ASSUME GateInv, NetInv', NEW fd \in FDs, NEW o \in Objs, ClientConnects(fd, o)
    PROVE  GateInv'
<1> USE GateAssumption, NFNetAssumption
<1>1. /\ objState' = [objState EXCEPT ![o] = "live"] /\ objState[o] = "new"
      /\ objFd' = [objFd EXCEPT ![o] = fd]
      /\ fd \notin DOMAIN mmObject
  BY DEF ClientConnects, ListenerCb, NewNetObject, Accepts
<1>2. /\ Live' = Live \cup {o} /\ o \notin Live
      /\ \A q \in Objs \ {o} : objFd'[q] = objFd[q] /\ objState'[q] = objState[q]
      /\ objFd'[o] = fd /\ objState'[o] = "live"
  BY <1>1 DEF Live, GateInv, NetInv, NetTypeOK
<1>3. \A p \in Players : m_pNetObject[p] \in Objs => m_pNetObject[p] # o
  BY <1>1 DEF GateInv, PlayersInv, PointersAreBorn
<1>3a. o # Null
  BY DEF GateInv
<1>4. CASE mNonPlayerList = <<>>
  <2>1. /\ UNCHANGED <<mNonPlayerList, mPlayerSockMap, mPlayerIDMap, m_pNetObject, m_PlayerId, fault>>
        /\ unserved' = unserved \cup {o}
    BY <1>4 DEF ClientConnects, OnClientConnected
  <2>2. GateTypeOK'
    BY <2>1 DEF GateInv, GateTypeOK, NetInv
  <2>3. PlayersInv'
    <3>1. PoolExclusive' /\ IdsMatch'
      BY <2>1 DEF GateInv, PlayersInv, PoolExclusive, FreePlayers, IdsMatch
    <3>3. PointersAreBorn'
      BY <2>1, <1>2, <1>3 DEF GateInv, PlayersInv, PointersAreBorn
    <3>4. \A f \in DOMAIN mPlayerSockMap :
            /\ mPlayerSockMap[f] \in Players
            /\ m_pNetObject[mPlayerSockMap[f]] \in Objs \ {o}
            /\ objFd[m_pNetObject[mPlayerSockMap[f]]] = f
      BY <1>3 DEF GateInv, PlayersInv, SocketsMatch, GateTypeOK
    <3>5. SocketsMatch'
      BY <2>1, <1>2, <3>4 DEF SocketsMatch
    <3>6. PlayerIsUnderItsSocket'
      BY <2>1, <1>2, <1>3 DEF GateInv, PlayersInv, RoutedToOwnPlayer, PlayerIsUnderItsSocket, Live
    <3>7. \A x \in Live : objFd[x] \in DOMAIN mmObject /\ objFd[x] # fd
      BY <1>1 DEF GateInv, NetInv, TableMatchesHeap
    <3>8. RoutedToOwnPlayer'
      <4> SUFFICES ASSUME NEW x \in Live', objFd'[x] \in DOMAIN mPlayerSockMap'
                   PROVE  LET owner == m_pNetObject'[mPlayerSockMap'[objFd'[x]]]
                          IN  owner = x \/ (x \in unserved' /\ owner \notin Live')
        BY <3>6 DEF RoutedToOwnPlayer
      <4>1. CASE x = o
        <5>1. /\ fd \in DOMAIN mPlayerSockMap /\ m_pNetObject[mPlayerSockMap[fd]] # o
              /\ objFd[m_pNetObject[mPlayerSockMap[fd]]] = fd
          BY <2>1, <1>2, <3>4, <4>1
        <5> QED BY <2>1, <1>2, <3>7, <4>1, <5>1
      <4>2. CASE x # o
        <5>1. x \in Live /\ objFd'[x] = objFd[x] /\ objFd[x] \in DOMAIN mPlayerSockMap
          BY <2>1, <1>2, <4>2 DEF Live
        <5>2. m_pNetObject[mPlayerSockMap[objFd[x]]] # o
          BY <3>4, <5>1
        <5> QED BY <2>1, <1>2, <5>1, <5>2 DEF GateInv, PlayersInv, RoutedToOwnPlayer
      <4> QED BY <4>1, <4>2
    <3>9. UnservedHaveNone'
      BY <2>1, <1>2, <1>3 DEF GateInv, GateTypeOK, PlayersInv, UnservedHaveNone
    <3> QED BY <3>1, <3>3, <3>5, <3>8, <3>9 DEF PlayersInv
  <2> QED BY <2>2, <2>3 DEF GateInv
<1>5. CASE mNonPlayerList # <<>>
  <2> DEFINE p == Head(mNonPlayerList)
  <2>1. /\ mNonPlayerList' = Tail(mNonPlayerList)
        /\ m_pNetObject' = [m_pNetObject EXCEPT ![p] = o]
        /\ mPlayerSockMap' = [f \in DOMAIN mPlayerSockMap \cup {fd} |->
                                  IF f = fd THEN p ELSE mPlayerSockMap[f]]
        /\ fault' = fault /\ unserved' = unserved
    BY <1>5 DEF ClientConnects, OnClientConnected, BindSocket
  <2>2. /\ p \in Players /\ mNonPlayerList' \in Seq(Players)
        /\ p \in FreePlayers /\ p \notin FreePlayers'
        /\ FreePlayers' \subseteq FreePlayers
        /\ \A i, j \in DOMAIN mNonPlayerList' : mNonPlayerList'[i] = mNonPlayerList'[j] => i = j
    BY <2>1, <1>5, HeadLeaves DEF GateInv, GateTypeOK, PlayersInv, PoolExclusive, FreePlayers
  <2>3. /\ \A f \in DOMAIN mPlayerSockMap : mPlayerSockMap[f] # p
        /\ \A id \in DOMAIN mPlayerIDMap : mPlayerIDMap[id] # p
    BY <2>2 DEF GateInv, PlayersInv, PoolExclusive
  <2>4. /\ m_PlayerId' = [m_PlayerId EXCEPT ![p] = DefaultId]
        /\ mPlayerIDMap' = [id \in DOMAIN mPlayerIDMap \cup {DefaultId} |->
                                IF id = DefaultId THEN p ELSE mPlayerIDMap[id]]
    BY <1>5, <2>3 DEF ClientConnects, OnClientConnected, AddPlayerIDMap, NewPlayerId
  <2> HIDE DEF p
  <2>5. GateTypeOK'
    <3>1. mPlayerSockMap' \in UNION {[D -> Players] : D \in SUBSET FDs}
      <4>1. PICK D \in SUBSET FDs : mPlayerSockMap \in [D -> Players]
        BY DEF GateInv, GateTypeOK
      <4>2. D \cup {fd} \in SUBSET FDs /\ mPlayerSockMap' \in [D \cup {fd} -> Players]
        BY <4>1, <2>1, <2>2
      <4> QED BY <4>2
    <3>2. mPlayerIDMap' \in UNION {[D -> Players] : D \in SUBSET {DefaultId}}
      <4>1. PICK D \in SUBSET {DefaultId} : mPlayerIDMap \in [D -> Players]
        BY DEF GateInv, GateTypeOK
      <4>2. D \cup {DefaultId} \in SUBSET {DefaultId} /\ mPlayerIDMap' \in [D \cup {DefaultId} -> Players]
        BY <4>1, <2>4, <2>2
      <4> QED BY <4>2
    <3> QED BY <3>1, <3>2, <2>1, <2>2, <2>4 DEF GateInv, GateTypeOK, NetInv
  <2>6. \A q \in Players \ {p} : m_pNetObject'[q] = m_pNetObject[q] /\ m_PlayerId'[q] = m_PlayerId[q]
    BY <2>1, <2>4 DEF GateInv, GateTypeOK
  <2>7. m_pNetObject'[p] = o /\ m_PlayerId'[p] = DefaultId
    BY <2>1, <2>2, <2>4 DEF GateInv, GateTypeOK
  <2>8. /\ \A f \in DOMAIN mPlayerSockMap : mPlayerSockMap[f] \in Players
        /\ \A id \in DOMAIN mPlayerIDMap : mPlayerIDMap[id] \in Players
        /\ FreePlayers \subseteq Players
    BY DEF GateInv, GateTypeOK, FreePlayers
  <2>9. SocketsMatch'
    BY <2>1, <2>2, <2>3, <2>6, <2>7, <2>8, <1>2, <1>3 DEF GateInv, PlayersInv, SocketsMatch
  <2>10. PoolExclusive'
    <3>1. \A q \in FreePlayers' : m_pNetObject'[q] = Null
      BY <2>2, <2>6, <2>8 DEF GateInv, PlayersInv, PoolExclusive
    <3>2. \A f \in DOMAIN mPlayerSockMap' : mPlayerSockMap'[f] \notin FreePlayers'
      BY <2>1, <2>2 DEF GateInv, PlayersInv, PoolExclusive
    <3>3. \A id \in DOMAIN mPlayerIDMap' : mPlayerIDMap'[id] \notin FreePlayers'
      BY <2>4, <2>2 DEF GateInv, PlayersInv, PoolExclusive
    <3>4. \A f, g \in DOMAIN mPlayerSockMap' : mPlayerSockMap'[f] = mPlayerSockMap'[g] => f = g
      BY <2>1, <2>3 DEF GateInv, PlayersInv, PoolExclusive
    <3> QED BY <2>2, <3>1, <3>2, <3>3, <3>4 DEF PoolExclusive
  <2>11. PlayerIsUnderItsSocket'
    <3> SUFFICES ASSUME NEW q \in Players, m_pNetObject'[q] \in Live'
                 PROVE  LET f == objFd'[m_pNetObject'[q]]
                        IN  f \in DOMAIN mPlayerSockMap' /\ mPlayerSockMap'[f] = q
      BY DEF PlayerIsUnderItsSocket
    <3>1. CASE q = p
      BY <3>1, <2>7, <1>2, <2>1
    <3>2. CASE q # p
      <4>1. m_pNetObject[q] = m_pNetObject'[q] /\ m_pNetObject[q] \in Live /\ m_pNetObject[q] \in Objs \ {o}
        BY <3>2, <2>6, <1>2, <1>3 DEF Live
      <4>2. /\ objFd[m_pNetObject[q]] \in DOMAIN mPlayerSockMap
            /\ mPlayerSockMap[objFd[m_pNetObject[q]]] = q
            /\ objFd[m_pNetObject[q]] # fd
        BY <4>1, <1>1 DEF GateInv, PlayersInv, RoutedToOwnPlayer, PlayerIsUnderItsSocket,
           NetInv, TableMatchesHeap
      <4> QED BY <4>1, <4>2, <1>2, <2>1
    <3> QED BY <3>1, <3>2
  <2>14. RoutedToOwnPlayer'
    <3> SUFFICES ASSUME NEW x \in Live', objFd'[x] \in DOMAIN mPlayerSockMap'
                 PROVE  LET owner == m_pNetObject'[mPlayerSockMap'[objFd'[x]]]
                        IN  owner = x \/ (x \in unserved' /\ owner \notin Live')
      BY <2>11 DEF RoutedToOwnPlayer
    <3>1. CASE x = o
      BY <3>1, <2>1, <2>7, <1>2
    <3>2. CASE x # o
      <4>1. /\ x \in Live /\ objFd'[x] = objFd[x] /\ objFd[x] # fd
            /\ objFd[x] \in DOMAIN mPlayerSockMap /\ mPlayerSockMap'[objFd[x]] = mPlayerSockMap[objFd[x]]
        <5>1. x \in Live /\ objFd'[x] = objFd[x]
          BY <1>2, <3>2 DEF Live
        <5>2. objFd[x] # fd
          BY <1>1, <5>1 DEF GateInv, NetInv, TableMatchesHeap
        <5> QED BY <2>1, <5>1, <5>2
      <4>2. /\ mPlayerSockMap[objFd[x]] \in Players \ {p}
            /\ m_pNetObject'[mPlayerSockMap[objFd[x]]] = m_pNetObject[mPlayerSockMap[objFd[x]]]
        BY <2>3, <2>6, <2>8, <4>1
      <4>3. m_pNetObject[mPlayerSockMap[objFd[x]]] # o
        BY <1>3, <4>1, <4>2 DEF GateInv, PlayersInv, SocketsMatch
      <4> QED BY <1>2, <2>1, <4>1, <4>2, <4>3 DEF GateInv, PlayersInv, RoutedToOwnPlayer
    <3> QED BY <3>1, <3>2
  <2>15. UnservedHaveNone'
    <3>1. o \notin unserved /\ unserved \subseteq Objs
      BY <1>1 DEF GateInv, GateTypeOK, PlayersInv, UnservedHaveNone
    <3> QED BY <2>1, <2>6, <2>7, <1>2, <3>1 DEF GateInv, PlayersInv, UnservedHaveNone
  <2>12. PointersAreBorn'
    BY <2>6, <2>7, <1>2, <1>3 DEF GateInv, PlayersInv, PointersAreBorn
  <2>13. IdsMatch'
    BY <2>4, <2>3, <2>6, <2>7, <2>8 DEF GateInv, PlayersInv, IdsMatch
  <2> QED BY <2>5, <2>9, <2>10, <2>12, <2>13, <2>14, <2>15 DEF GateInv, PlayersInv
<1> QED BY <1>4, <1>5

(* DestoryPlayer of the player a socket leads to. *)
LEMMA DestoryPlayerInv ==
    ASSUME GateInv, NetInv', NEW fd \in DOMAIN mPlayerSockMap, DestoryPlayer(mPlayerSockMap[fd]),
           UNCHANGED <<objState, objFd>>
    PROVE  GateInv'
<1> USE GateAssumption, NFNetAssumption
<1> DEFINE p == mPlayerSockMap[fd]
<1>1. CASE Dangling(p)
  <2>1. /\ UNCHANGED <<mNonPlayerList, mPlayerSockMap, mPlayerIDMap, m_pNetObject, m_PlayerId, unserved>>
        /\ fault' = TRUE
    BY <1>1 DEF DestoryPlayer
  <2>2. GateTypeOK'
    BY <2>1 DEF GateInv, GateTypeOK, NetInv
  <2>3. PlayersInv'
    BY <2>1 DEF GateInv, PlayersInv, PoolExclusive, FreePlayers, RoutedToOwnPlayer,
       PlayerIsUnderItsSocket, PointersAreBorn, SocketsMatch, IdsMatch, UnservedHaveNone, Live
  <2> QED BY <2>2, <2>3 DEF GateInv
<1>2. CASE ~Dangling(p)
  <2>1. /\ mPlayerSockMap' = [f \in DOMAIN mPlayerSockMap \ {objFd[m_pNetObject[p]]} |-> mPlayerSockMap[f]]
        /\ m_pNetObject' = [m_pNetObject EXCEPT ![p] = Null]
        /\ mPlayerIDMap' = [id \in DOMAIN mPlayerIDMap \ OwnIds(p) |-> mPlayerIDMap[id]]
        /\ mNonPlayerList' = Append(mNonPlayerList, p)
        /\ UNCHANGED <<m_PlayerId, fault, unserved>>
    BY <1>2 DEF DestoryPlayer, ForgetSocket, Recycle
  <2>2. p \in Players /\ m_pNetObject[p] \in Objs /\ objFd[m_pNetObject[p]] = fd /\ p \notin FreePlayers
    BY DEF GateInv, GateTypeOK, PlayersInv, SocketsMatch, PoolExclusive
  <2>3. OwnIds(p) = {id \in DOMAIN mPlayerIDMap : mPlayerIDMap[id] = p}
    BY DEF OwnIds, GateInv, PlayersInv, IdsMatch
  <2>5. /\ DOMAIN mPlayerSockMap' = DOMAIN mPlayerSockMap \ {fd}
        /\ \A f \in DOMAIN mPlayerSockMap' : /\ mPlayerSockMap'[f] = mPlayerSockMap[f]
                                             /\ mPlayerSockMap[f] # p
                                             /\ mPlayerSockMap[f] \in Players
    BY <2>1, <2>2 DEF GateInv, PlayersInv, PoolExclusive, GateTypeOK
  <2>6. /\ DOMAIN mPlayerIDMap' \subseteq DOMAIN mPlayerIDMap
        /\ \A id \in DOMAIN mPlayerIDMap' : mPlayerIDMap'[id] = mPlayerIDMap[id] /\ mPlayerIDMap[id] # p
    BY <2>1, <2>3
  <2> HIDE DEF p
  <2>4. /\ mNonPlayerList' \in Seq(Players) /\ FreePlayers' = FreePlayers \cup {p}
        /\ \A i, j \in DOMAIN mNonPlayerList' : mNonPlayerList'[i] = mNonPlayerList'[j] => i = j
    <3>1. /\ mNonPlayerList \in Seq(Players)
          /\ \A i, j \in DOMAIN mNonPlayerList : mNonPlayerList[i] = mNonPlayerList[j] => i = j
      BY DEF GateInv, GateTypeOK, PlayersInv, PoolExclusive
    <3>2. p \in Players /\ p \notin {mNonPlayerList[i] : i \in DOMAIN mNonPlayerList}
      BY <2>2 DEF FreePlayers
    <3>3. mNonPlayerList' = Append(mNonPlayerList, p)
      BY <2>1
    <3>4. /\ Append(mNonPlayerList, p) \in Seq(Players)
          /\ {Append(mNonPlayerList, p)[i] : i \in DOMAIN Append(mNonPlayerList, p)}
               = {mNonPlayerList[i] : i \in DOMAIN mNonPlayerList} \cup {p}
          /\ \A i, j \in DOMAIN Append(mNonPlayerList, p) :
                Append(mNonPlayerList, p)[i] = Append(mNonPlayerList, p)[j] => i = j
      BY <3>1, <3>2, AppendKeeps
    <3> QED BY <3>3, <3>4 DEF FreePlayers
  <2>7. /\ \A q \in Players \ {p} : m_pNetObject'[q] = m_pNetObject[q]
        /\ m_pNetObject'[p] = Null
        /\ m_pNetObject' \in [Players -> Objs \cup {Null}]
    BY <2>1, <2>2 DEF GateInv, GateTypeOK
  <2>8. GateTypeOK'
    <3>1. mPlayerSockMap' \in UNION {[D -> Players] : D \in SUBSET FDs}
      <4>1. PICK D \in SUBSET FDs : mPlayerSockMap \in [D -> Players]
        BY DEF GateInv, GateTypeOK
      <4>2. D \ {fd} \in SUBSET FDs /\ mPlayerSockMap' \in [D \ {fd} -> Players]
        BY <4>1, <2>1, <2>2
      <4> QED BY <4>2
    <3>2. mPlayerIDMap' \in UNION {[D -> Players] : D \in SUBSET {DefaultId}}
      <4>1. PICK D \in SUBSET {DefaultId} : mPlayerIDMap \in [D -> Players]
        BY DEF GateInv, GateTypeOK
      <4>2. D \ OwnIds(p) \in SUBSET {DefaultId} /\ mPlayerIDMap' \in [D \ OwnIds(p) -> Players]
        BY <4>1, <2>1
      <4> QED BY <4>2
    <3> QED BY <3>1, <3>2, <2>1, <2>4, <2>7 DEF GateInv, GateTypeOK, NetInv
  <2>9. FreePlayers \subseteq Players
    BY DEF GateInv, GateTypeOK, FreePlayers
  <2>10. PoolExclusive'
    BY <2>4, <2>5, <2>6, <2>7, <2>9 DEF PoolExclusive, GateInv, PlayersInv
  <2>11. PlayerIsUnderItsSocket'
    <3> SUFFICES ASSUME NEW q \in Players, m_pNetObject'[q] \in Live'
                 PROVE  LET f == objFd'[m_pNetObject'[q]]
                        IN  f \in DOMAIN mPlayerSockMap' /\ mPlayerSockMap'[f] = q
      BY DEF PlayerIsUnderItsSocket
    <3>1. q # p /\ m_pNetObject[q] = m_pNetObject'[q] /\ m_pNetObject[q] \in Live
      BY <2>7 DEF Live
    <3>2. /\ objFd[m_pNetObject[q]] \in DOMAIN mPlayerSockMap
          /\ mPlayerSockMap[objFd[m_pNetObject[q]]] = q
      BY <3>1 DEF GateInv, PlayersInv, RoutedToOwnPlayer, PlayerIsUnderItsSocket
    <3>3. objFd[m_pNetObject[q]] # fd
      BY <3>1, <3>2 DEF p
    <3> QED BY <3>1, <3>2, <3>3, <2>5
  <2>12. PointersAreBorn'
    BY <2>7 DEF GateInv, PlayersInv, PointersAreBorn
  <2>13. SocketsMatch'
    BY <2>5, <2>7 DEF GateInv, PlayersInv, SocketsMatch
  <2>14. IdsMatch'
    BY <2>1, <2>6 DEF GateInv, PlayersInv, IdsMatch
  <2>15. RoutedToOwnPlayer'
    <3> SUFFICES ASSUME NEW x \in Live', objFd'[x] \in DOMAIN mPlayerSockMap'
                 PROVE  LET owner == m_pNetObject'[mPlayerSockMap'[objFd'[x]]]
                        IN  owner = x \/ (x \in unserved' /\ owner \notin Live')
      BY <2>11 DEF RoutedToOwnPlayer
    <3>1. Live' = Live /\ objFd' = objFd /\ unserved' = unserved
      BY <2>1 DEF Live
    <3>2. /\ objFd[x] \in DOMAIN mPlayerSockMap
          /\ m_pNetObject'[mPlayerSockMap'[objFd[x]]] = m_pNetObject[mPlayerSockMap[objFd[x]]]
      BY <2>5, <2>7, <3>1
    <3> QED BY <3>1, <3>2 DEF GateInv, PlayersInv, RoutedToOwnPlayer
  <2>16. UnservedHaveNone'
    <3>1. Null \notin unserved
      BY DEF GateInv, GateTypeOK
    <3> QED BY <2>1, <2>7, <3>1 DEF GateInv, PlayersInv, UnservedHaveNone
  <2> QED BY <2>8, <2>10, <2>12, <2>13, <2>14, <2>15, <2>16 DEF GateInv, PlayersInv
<1> QED BY <1>1, <1>2

(* Every step of the gate keeps the invariant. *)
LEMMA GateNextInv == GateInv /\ [GateNext]_gateVars => GateInv'
<1> SUFFICES ASSUME GateInv, [GateNext]_gateVars PROVE GateInv'
  OBVIOUS
<1>1. NetInv'
  <2>1. [NetNext]_netVars
    BY DEF GateNext, gateVars, NetNext, LoopStarts, LoopReturns, ClientConnects, ClientRefused,
       ClientEvent, KickPlayer, KickPlayerAllPlayer, ClientHangsUp
  <2> QED BY <2>1, NetNextInv DEF GateInv
<1>2. CASE LoopStarts
  BY <1>1, <1>2, NetStepInv DEF LoopStarts, Execute, ExecuteClose, CloseObject
<1>3. CASE LoopReturns
  BY <1>1, <1>3, NetStepInv DEF LoopReturns, ExecuteReturns
<1>4. CASE \E fd \in FDs, o \in Objs : ClientConnects(fd, o)
  BY <1>1, <1>4, ClientConnectsInv
<1>5. CASE \E fd \in FDs : ClientRefused(fd)
  BY <1>1, <1>5, NetStepInv DEF ClientRefused, ListenerCbReturns
<1>6. CASE \E o \in Objs, ev \in Events : ClientEvent(o, ev)
  <2> PICK o \in Objs, ev \in Events : ClientEvent(o, ev)
    BY <1>6
  <2>1. UNCHANGED <<objState, objFd>>
    BY DEF ClientEvent, ConnEventCb
  <2>2. CASE EndsConnection(ev) /\ objFd[o] \in DOMAIN mPlayerSockMap
    BY <1>1, <2>1, <2>2, DestoryPlayerInv DEF ClientEvent, OnSocketClientEvent, OnClientDisconnect
  <2>3. CASE ~(EndsConnection(ev) /\ objFd[o] \in DOMAIN mPlayerSockMap)
    BY <1>1, <2>1, <2>3, NetStepInv DEF ClientEvent, OnSocketClientEvent, OnClientDisconnect
  <2> QED BY <2>2, <2>3
<1>7. CASE \E fd \in FDs : KickPlayer(fd)
  BY <1>1, <1>7, NetStepInv DEF KickPlayer, Kick
<1>8. CASE KickPlayerAllPlayer
  BY <1>1, <1>8, NetStepInv DEF KickPlayerAllPlayer, KickAll, CloseObject
<1>9. CASE \E o \in Objs : ClientHangsUp(o)
  BY <1>1, <1>9, NetStepInv DEF ClientHangsUp, PeerCloses
<1>10. CASE UNCHANGED gateVars
  BY <1>1, <1>10, NetStepInv DEF gateVars, netVars
<1> QED
  BY <1>2, <1>3, <1>4, <1>5, <1>6, <1>7, <1>8, <1>9, <1>10 DEF GateNext

(* No player is ever handed to two connections. *)
THEOREM PoolStaysExclusive == GateSpec => [](GateTypeOK /\ PoolExclusive)
<1>1. GateInv => GateTypeOK /\ PoolExclusive
  BY DEF GateInv, PlayersInv
<1> QED BY <1>1, GateInitInv, GateNextInv, PTL DEF GateSpec

(* The descriptor of a live connection leads to the player created for it, *)
(* to none, or, if the pool was empty when it came (CreatePlayer), to the  *)
(* player of a former owner that is gone: never to the player of another   *)
(* live connection, whatever flag words libevent reports, whoever is       *)
(* kicked.                                                                 *)
THEOREM RoutingIsOwn == GateSpec => []RoutedToOwnPlayer
<1>1. GateInv => RoutedToOwnPlayer
  BY DEF GateInv, PlayersInv
<1> QED BY <1>1, GateInitInv, GateNextInv, PTL DEF GateSpec

(* The types of the player tables (ClientPlayerMgr.h).                     *)
THEOREM GateTypeCorrect == GateSpec => []GateTypeOK
BY PoolStaysExclusive, PTL

-----------------------------------------------------------------------------
(* An id passes only to the player of a newer connection, or is given up   *)
(* by a player that is destroyed (AddPlayerIDMap, DestoryPlayer).          *)
THEOREM IdIsKept == GateSpec => IdStaysWithHolder
<1> DEFINE Kept ==
      \A id \in DOMAIN mPlayerIDMap :
          LET p == mPlayerIDMap[id] IN
          \/ id \in DOMAIN mPlayerIDMap' /\ mPlayerIDMap'[id] = p
          \/ p \in {mNonPlayerList'[i] : i \in DOMAIN mNonPlayerList'}
          \/ \E o \in Objs : objState[o] = "new" /\ objState'[o] = "live"
                              /\ m_pNetObject'[mPlayerIDMap'[id]] = o
<1>1. GateInv /\ [GateNext]_gateVars => [Kept]_gateVars
  <2> SUFFICES ASSUME GateInv, GateNext PROVE Kept
    BY Zenon
  <2>1. CASE UNCHANGED mPlayerIDMap
    BY <2>1
  <2>2. ASSUME NEW fd \in FDs, NEW o \in Objs, ClientConnects(fd, o), mNonPlayerList # <<>>
        PROVE  Kept
    <3> DEFINE p == Head(mNonPlayerList)
    <3>1. objState[o] = "new" /\ objState' = [objState EXCEPT ![o] = "live"]
      BY <2>2 DEF ClientConnects, ListenerCb, NewNetObject
    <3>2. p \in Players
      BY <2>2, HeadLeaves DEF GateInv, GateTypeOK, PlayersInv, PoolExclusive, FreePlayers
    <3>3. /\ m_pNetObject' = [m_pNetObject EXCEPT ![p] = o]
          /\ \/ mPlayerIDMap' = mPlayerIDMap
             \/ mPlayerIDMap' = [i \in DOMAIN mPlayerIDMap \cup {DefaultId} |->
                                    IF i = DefaultId THEN p ELSE mPlayerIDMap[i]]
      BY <2>2 DEF ClientConnects, OnClientConnected, AddPlayerIDMap, NewPlayerId
    <3>4. objState'[o] = "live" /\ m_pNetObject'[p] = o
      BY <3>1, <3>2, <3>3 DEF GateInv, GateTypeOK, NetInv, NetTypeOK
    <3> HIDE DEF p
    <3> QED BY <3>1, <3>3, <3>4
  <2>3. ASSUME NEW fd \in DOMAIN mPlayerSockMap, DestoryPlayer(mPlayerSockMap[fd]) PROVE Kept
    <3> DEFINE p == mPlayerSockMap[fd]
    <3>1. CASE Dangling(p)
      BY <2>1, <2>3, <3>1 DEF DestoryPlayer
    <3>2. CASE ~Dangling(p)
      <4>1. /\ mPlayerIDMap' = [id \in DOMAIN mPlayerIDMap \ OwnIds(p) |-> mPlayerIDMap[id]]
            /\ mNonPlayerList' = Append(mNonPlayerList, p)
        BY <2>3, <3>2 DEF DestoryPlayer, Recycle
      <4>2. mNonPlayerList \in Seq(Players) /\ p \in Players
        BY DEF GateInv, GateTypeOK
      <4>3. p \in {mNonPlayerList'[i] : i \in DOMAIN mNonPlayerList'}
        <5>1. Len(mNonPlayerList) + 1 \in DOMAIN mNonPlayerList'
              /\ mNonPlayerList'[Len(mNonPlayerList) + 1] = p
          BY <4>1, <4>2
        <5> QED BY <5>1
      <4>4. \A id \in OwnIds(p) : mPlayerIDMap[id] = p
        BY DEF OwnIds
      <4> HIDE DEF p
      <4> QED BY <4>1, <4>3, <4>4
    <3> QED BY <3>1, <3>2
  <2> QED BY <2>1, <2>2, <2>3 DEF GateNext, LoopStarts, LoopReturns, ClientConnects, ClientRefused,
            ClientEvent, KickPlayer, KickPlayerAllPlayer, ClientHangsUp, OnClientConnected,
            OnSocketClientEvent, OnClientDisconnect, playerVars
<1> QED BY <1>1, GateInitInv, GateNextInv, PTL DEF GateSpec, IdStaysWithHolder

-----------------------------------------------------------------------------
(* All players that serve anybody have the one id there is, and whoever    *)
(* holds it was created for the newest connection that got a player.       *)
BusyHaveId == \A p \in Players : m_pNetObject[p] # Null => m_PlayerId[p] = DefaultId

HolderIsNewest == \A id \in DOMAIN mPlayerIDMap : m_pNetObject[mPlayerIDMap[id]] = newest

(* A server that has reported has an entry with the descriptor it is       *)
(* connected under, and no two servers are connected under the same.       *)
ReportedHaveEntry ==
    \A s \in reported : /\ nodeFd[s] # NoFd
                        /\ s \in DOMAIN m_mClientNodes /\ m_mClientNodes[s] = nodeFd[s]

DistinctFds == \A s, t \in NodeServers : nodeFd[s] = nodeFd[t] => s = t \/ nodeFd[s] = NoFd

ChatInv ==
    /\ GateInv /\ ChatTypeOK
    /\ BusyHaveId /\ HolderIsNewest
    /\ ReportedHaveEntry /\ DistinctFds

-----------------------------------------------------------------------------
(* The initial state. *)
LEMMA ChatInitInv == ChatInit => ChatInv
<1> SUFFICES ASSUME ChatInit PROVE ChatInv
  OBVIOUS
<1> USE ChatRouteAssumption
<1>1. GateInv
  BY GateInitInv DEF ChatInit
<1>2. ChatTypeOK
  <2>1. m_mClientNodes \in [{} -> NodeFDs] /\ {} \in SUBSET NodeServers
    BY DEF ChatInit
  <2>2. <<>> \in Seq(Packets)
    OBVIOUS
  <2>3. GateTypeOK
    BY <1>1 DEF GateInv
  <2>4. m_mClientNodes \in UNION {[D -> NodeFDs] : D \in SUBSET NodeServers}
    BY <2>1
  <2>5. msg_id \in [Asks -> MsgIds \cup {0}]
    BY DEF ChatInit
  <2>6. /\ toChat \in [NodeServers -> Seq(Packets)] /\ toGate \in [NodeServers -> Seq(Packets)]
        /\ fate \in [Asks -> Ends \cup Objs] /\ asker \in [Asks -> Objs \cup {Null}]
    BY <2>2 DEF ChatInit, Ends
  <2>7. /\ nodeFd \in [NodeServers -> NodeFDs \cup {NoFd}] /\ reported \subseteq NodeServers
        /\ links \in 0 .. MaxLinks /\ newest \in Objs \cup {Null}
    BY DEF ChatInit
  <2> QED BY <2>3, <2>4, <2>5, <2>6, <2>7 DEF ChatTypeOK
<1>3. BusyHaveId /\ HolderIsNewest /\ ReportedHaveEntry /\ DistinctFds
  BY DEF ChatInit, GateInit, BusyHaveId, HolderIsNewest, ReportedHaveEntry, DistinctFds
<1> QED BY <1>1, <1>2, <1>3 DEF ChatInv

(* What the node server and the wires do leaves the players alone. *)
LEMMA PlayersUntouched ==
    ASSUME ChatInv, UNCHANGED <<gateVars, newest>>
    PROVE  GateInv' /\ BusyHaveId' /\ HolderIsNewest'
<1>1. GateInv'
  BY GateNextInv DEF ChatInv
<1> QED BY <1>1 DEF ChatInv, BusyHaveId, HolderIsNewest, gateVars, playerVars

(* A step of the player server by which nobody gets a player.              *)
LEMMA PlayerServerInv ==
    ASSUME ChatInv, PlayerServerStep, ~fault
    PROVE  ChatInv'
<1>1. GateNext
  BY DEF PlayerServerStep, GateNext
<1>2. GateInv'
  BY <1>1, GateNextInv DEF ChatInv
<1>3. UNCHANGED <<nodeVars, wireVars, newest>>
  BY DEF PlayerServerStep
<1>4. ChatTypeOK' /\ ReportedHaveEntry' /\ DistinctFds'
  BY <1>2, <1>3 DEF ChatInv, ChatTypeOK, GateInv, ReportedHaveEntry, DistinctFds, nodeVars, wireVars
<1>5. CASE UNCHANGED playerVars
  BY <1>2, <1>3, <1>4, <1>5 DEF ChatInv, BusyHaveId, HolderIsNewest, playerVars
<1>6. ASSUME NEW fd \in DOMAIN mPlayerSockMap, DestoryPlayer(mPlayerSockMap[fd])
      PROVE  BusyHaveId' /\ HolderIsNewest'
  <2> DEFINE p == mPlayerSockMap[fd]
  <2>1. CASE Dangling(p)
    BY <1>3, <1>6, <2>1 DEF DestoryPlayer, ChatInv, BusyHaveId, HolderIsNewest
  <2>2. CASE ~Dangling(p)
    <3>1. /\ m_pNetObject' = [m_pNetObject EXCEPT ![p] = Null]
          /\ mPlayerIDMap' = [id \in DOMAIN mPlayerIDMap \ OwnIds(p) |-> mPlayerIDMap[id]]
          /\ m_PlayerId' = m_PlayerId /\ newest' = newest
      BY <1>3, <1>6, <2>2 DEF DestoryPlayer
    <3>2. /\ \A id \in DOMAIN mPlayerIDMap : mPlayerIDMap[id] = p => id \in OwnIds(p)
          /\ \A id \in DOMAIN mPlayerIDMap : mPlayerIDMap[id] \in Players
          /\ m_pNetObject \in [Players -> Objs \cup {Null}]
      BY DEF OwnIds, ChatInv, GateInv, PlayersInv, IdsMatch, GateTypeOK
    <3> HIDE DEF p
    <3> QED BY <3>1, <3>2 DEF ChatInv, BusyHaveId, HolderIsNewest
  <2> QED BY <2>1, <2>2
<1>7. UNCHANGED playerVars \/ \E fd \in DOMAIN mPlayerSockMap : DestoryPlayer(mPlayerSockMap[fd])
  BY DEF PlayerServerStep, LoopStarts, LoopReturns, ClientRefused, ClientEvent, ClientHangsUp,
         OnSocketClientEvent, OnClientDisconnect
<1> QED BY <1>2, <1>4, <1>5, <1>6, <1>7 DEF ChatInv

(* The newest connection gets the first free player and the id. *)
LEMMA PlayerConnectsInv ==
    ASSUME ChatInv, NEW fd \in FDs, NEW o \in Objs, PlayerConnects(fd, o), ~fault
    PROVE  ChatInv'
<1>1. GateNext
  BY DEF PlayerConnects, GateNext
<1>2. GateInv'
  BY <1>1, GateNextInv DEF ChatInv
<1>3. UNCHANGED <<nodeVars, wireVars>> /\ newest' \in {newest, o}
  BY DEF PlayerConnects
<1>4. ChatTypeOK' /\ ReportedHaveEntry' /\ DistinctFds'
  BY <1>2, <1>3 DEF ChatInv, ChatTypeOK, GateInv, ReportedHaveEntry, DistinctFds, nodeVars, wireVars
<1>5. CASE mNonPlayerList = <<>>
  BY <1>2, <1>4, <1>5 DEF PlayerConnects, ClientConnects, OnClientConnected, ChatInv,
     BusyHaveId, HolderIsNewest
<1>6. CASE mNonPlayerList # <<>>
  <2> DEFINE p == Head(mNonPlayerList)
  <2>1. p \in Players /\ p \in FreePlayers
    BY <1>6, HeadLeaves DEF ChatInv, GateInv, GateTypeOK, PlayersInv, PoolExclusive, FreePlayers
  <2>2. \A id \in DOMAIN mPlayerIDMap : mPlayerIDMap[id] # p /\ id = DefaultId
    BY <2>1 DEF ChatInv, GateInv, GateTypeOK, PlayersInv, PoolExclusive
  <2>3. /\ m_pNetObject' = [m_pNetObject EXCEPT ![p] = o]
        /\ m_PlayerId' = [m_PlayerId EXCEPT ![p] = DefaultId]
        /\ mPlayerIDMap' = [id \in DOMAIN mPlayerIDMap \cup {DefaultId} |->
                                IF id = DefaultId THEN p ELSE mPlayerIDMap[id]]
        /\ newest' = o
    BY <1>6, <2>2 DEF PlayerConnects, ClientConnects, OnClientConnected, AddPlayerIDMap, NewPlayerId
  <2>4. /\ m_pNetObject \in [Players -> Objs \cup {Null}]
        /\ m_PlayerId \in [Players -> {0, DefaultId}]
    BY DEF ChatInv, GateInv, GateTypeOK
  <2> HIDE DEF p
  <2>5. BusyHaveId'
    BY <2>1, <2>3, <2>4 DEF ChatInv, BusyHaveId
  <2>6. HolderIsNewest'
    BY <2>1, <2>2, <2>3, <2>4 DEF HolderIsNewest
  <2> QED BY <1>2, <1>4, <2>5, <2>6 DEF ChatInv
<1> QED BY <1>5, <1>6

-----------------------------------------------------------------------------
(* A server connects, reports, or breaks off. *)
LEMMA NodeStepInv ==
    ASSUME ChatInv, NEW s \in NodeServers, NEW fd \in NodeFDs,
           ServerConnects(s, fd) \/ OnReportToServer(s) \/ ServerDisconnects(s)
    PROVE  ChatInv'
<1> USE ChatRouteAssumption
<1>1. GateInv' /\ BusyHaveId' /\ HolderIsNewest'
  BY PlayersUntouched DEF ServerConnects, OnReportToServer, ServerDisconnects
<1>2. GateTypeOK'
  BY <1>1 DEF GateInv
<1>3. /\ m_mClientNodes \in UNION {[D -> NodeFDs] : D \in SUBSET NodeServers}
      /\ nodeFd \in [NodeServers -> NodeFDs \cup {NoFd}]
      /\ reported \subseteq NodeServers /\ links \in 0 .. MaxLinks
      /\ fate \in [Asks -> Ends \cup Objs] /\ asker \in [Asks -> Objs \cup {Null}]
      /\ msg_id \in [Asks -> MsgIds \cup {0}]
      /\ toChat \in [NodeServers -> Seq(Packets)] /\ toGate \in [NodeServers -> Seq(Packets)]
      /\ newest \in Objs \cup {Null}
  BY DEF ChatInv, ChatTypeOK
<1>4. CASE ServerConnects(s, fd)
  <2>1. links' \in 0 .. MaxLinks
    BY <1>3, <1>4 DEF ServerConnects
  <2>2. ChatTypeOK'
    BY <1>2, <1>3, <1>4, <2>1 DEF ServerConnects, ChatTypeOK, wireVars
  <2>3. ReportedHaveEntry' /\ DistinctFds'
    BY <1>3, <1>4 DEF ServerConnects, ChatInv, ReportedHaveEntry, DistinctFds
  <2> QED BY <1>1, <2>2, <2>3 DEF ChatInv
<1>5. CASE OnReportToServer(s)
  <2>1. m_mClientNodes' \in UNION {[D -> NodeFDs] : D \in SUBSET NodeServers}
    <3>1. PICK D \in SUBSET NodeServers : m_mClientNodes \in [D -> NodeFDs]
      BY <1>3
    <3>2. nodeFd[s] \in NodeFDs
      BY <1>3, <1>5 DEF OnReportToServer
    <3>3. m_mClientNodes' \in [D \cup {s} -> NodeFDs] /\ D \cup {s} \in SUBSET NodeServers
      BY <1>5, <3>1, <3>2 DEF OnReportToServer, SetClientNode
    <3> QED BY <3>3
  <2>2. ChatTypeOK'
    BY <1>2, <1>3, <1>5, <2>1 DEF OnReportToServer, ChatTypeOK, wireVars
  <2>3. ReportedHaveEntry' /\ DistinctFds'
    BY <1>5 DEF OnReportToServer, SetClientNode, ChatInv, ReportedHaveEntry, DistinctFds
  <2> QED BY <1>1, <2>2, <2>3 DEF ChatInv
<1>6. CASE ServerDisconnects(s)
  <2>1. fate' \in [Asks -> Ends \cup Objs]
    BY <1>3, <1>6 DEF ServerDisconnects, Ends
  <2>2. toChat' \in [NodeServers -> Seq(Packets)] /\ toGate' \in [NodeServers -> Seq(Packets)]
    <3>1. <<>> \in Seq(Packets)
      OBVIOUS
    <3> QED BY <1>3, <1>6, <3>1 DEF ServerDisconnects
  <2>3. ChatTypeOK'
    BY <1>2, <1>3, <1>6, <2>1, <2>2 DEF ServerDisconnects, ChatTypeOK
  <2>4. ReportedHaveEntry' /\ DistinctFds'
    BY <1>3, <1>6 DEF ServerDisconnects, ChatInv, ReportedHaveEntry, DistinctFds
  <2> QED BY <1>1, <2>3, <2>4 DEF ChatInv
<1> QED BY <1>4, <1>5, <1>6

(* A message is sent on, or not. *)
LEMMA ClientAsksInv ==
    ASSUME ChatInv, NEW o \in Objs, NEW n \in Asks, NEW id \in MsgIds, ClientAsks(o, n, id)
    PROVE  ChatInv'
<1> USE ChatRouteAssumption
<1> DEFINE m == [player_id |-> m_PlayerId[mPlayerSockMap[objFd[o]]], n |-> n]
<1>1. GateInv' /\ BusyHaveId' /\ HolderIsNewest'
  BY PlayersUntouched DEF ClientAsks
<1>2. GateTypeOK' /\ ReportedHaveEntry' /\ DistinctFds'
  BY <1>1 DEF GateInv, ClientAsks, ChatInv, ReportedHaveEntry, DistinctFds, nodeVars
<1>3. m \in Packets
  <2>1. objFd[o] \in DOMAIN mPlayerSockMap
    BY DEF ClientAsks
  <2>2. mPlayerSockMap[objFd[o]] \in Players
    BY <2>1 DEF ChatInv, GateInv, GateTypeOK
  <2>3. m_pNetObject[mPlayerSockMap[objFd[o]]] \in Objs
    BY <2>1 DEF ChatInv, GateInv, PlayersInv, SocketsMatch
  <2>4. m_PlayerId[mPlayerSockMap[objFd[o]]] = DefaultId
    BY <2>2, <2>3, GateAssumption DEF ChatInv, BusyHaveId
  <2> QED BY <2>4 DEF Packets
<1>4. /\ SentPackToChat(m) /\ UNCHANGED <<nodeVars, toGate, newest>>
      /\ asker' = [asker EXCEPT ![n] = o] /\ msg_id' = [msg_id EXCEPT ![n] = id]
  BY DEF ClientAsks
<1> HIDE DEF m
<1>5. m.n \in Asks
  BY <1>3 DEF Packets
<1>6. fate' \in [Asks -> Ends \cup Objs] /\ toChat' \in [NodeServers -> Seq(Packets)]
  <2>1. fate \in [Asks -> Ends \cup Objs] /\ toChat \in [NodeServers -> Seq(Packets)]
    BY DEF ChatInv, ChatTypeOK
  <2>2. CASE ChatNodes # {} /\ Receivers \cap ChatServers # {}
    <3> DEFINE t == CHOOSE t \in Receivers : TRUE
    <3>1. t \in NodeServers
      BY <2>2 DEF Receivers
    <3>2. /\ toChat' = [toChat EXCEPT ![t] = Append(@, m)]
          /\ fate' = [fate EXCEPT ![m.n] = "asked"]
      BY <1>4, <2>2 DEF SentPackToChat
    <3> HIDE DEF t
    <3>3. toChat[t] \in Seq(Packets)
      BY <2>1, <3>1
    <3>4. Append(toChat[t], m) \in Seq(Packets)
      BY <1>3, <3>3
    <3> QED BY <1>5, <2>1, <3>1, <3>2, <3>4 DEF Ends
  <2>3. CASE ~(ChatNodes # {} /\ Receivers \cap ChatServers # {})
    BY <1>4, <1>5, <2>1, <2>3 DEF SentPackToChat, Ends
  <2> QED BY <2>2, <2>3
<1>7. asker' \in [Asks -> Objs \cup {Null}] /\ msg_id' \in [Asks -> MsgIds \cup {0}]
  BY <1>4 DEF ChatInv, ChatTypeOK
<1>8. ChatTypeOK'
  BY <1>2, <1>4, <1>6, <1>7 DEF ChatInv, ChatTypeOK, nodeVars
<1> QED BY <1>1, <1>2, <1>8 DEF ChatInv

(* The chat server answers, and the answer is delivered. *)
LEMMA AnswerInv ==
    ASSUME ChatInv, NEW s \in NodeServers, OnGateRouteChat(s) \/ OnChatRouteBack(s)
    PROVE  ChatInv'
<1> USE ChatRouteAssumption
<1>1. /\ toChat \in [NodeServers -> Seq(Packets)] /\ toGate \in [NodeServers -> Seq(Packets)]
      /\ fate \in [Asks -> Ends \cup Objs]
  BY DEF ChatInv, ChatTypeOK
<1>2. CASE OnGateRouteChat(s)
  <2>1. GateInv' /\ BusyHaveId' /\ HolderIsNewest'
    BY <1>2, PlayersUntouched DEF OnGateRouteChat
  <2>2. Head(toChat[s]) \in Packets /\ Tail(toChat[s]) \in Seq(Packets)
    BY <1>1, <1>2 DEF OnGateRouteChat
  <2>3. toGate[s] \in Seq(Packets)
    BY <1>1
  <2>4. Append(toGate[s], Head(toChat[s])) \in Seq(Packets)
    BY <2>2, <2>3
  <2>5. toChat' \in [NodeServers -> Seq(Packets)] /\ toGate' \in [NodeServers -> Seq(Packets)]
    BY <1>1, <1>2, <2>2, <2>4 DEF OnGateRouteChat, ChatToGate
  <2>6. fate' \in [Asks -> Ends \cup Objs]
    <3>1. fate' = fate \/ \E k : fate' = [fate EXCEPT ![k] = "unhandled"]
      BY <1>2 DEF OnGateRouteChat
    <3> QED BY <1>1, <3>1 DEF Ends
  <2>7. ChatTypeOK' /\ ReportedHaveEntry' /\ DistinctFds'
    BY <1>2, <2>1, <2>5, <2>6 DEF OnGateRouteChat, ChatInv, ChatTypeOK, GateInv, ReportedHaveEntry,
       DistinctFds, nodeVars
  <2> QED BY <2>1, <2>7 DEF ChatInv
<1>3. CASE OnChatRouteBack(s)
  <2>1. /\ UNCHANGED <<netVars, mNonPlayerList, mPlayerSockMap, mPlayerIDMap, m_pNetObject,
                       m_PlayerId, unserved, nodeVars, toChat, asker, msg_id, newest>>
        /\ toGate' = [toGate EXCEPT ![s] = Tail(@)]
    BY <1>3 DEF OnChatRouteBack
  <2>2. Head(toGate[s]) \in Packets /\ Tail(toGate[s]) \in Seq(Packets)
    BY <1>1, <1>3 DEF OnChatRouteBack
  <2>3. Head(toGate[s]).n \in Asks
    BY <2>2 DEF Packets
  <2>4. /\ fault' \in BOOLEAN
        /\ fate' \in [Asks -> Ends \cup Objs]
    <3> DEFINE m == Head(toGate[s])
    <3>1. \/ /\ fate' = [fate EXCEPT ![m.n] = "unclaimed"] /\ fault' = fault
          \/ /\ fault' = TRUE /\ fate' = fate
          \/ \E o \in Live : fate' = [fate EXCEPT ![m.n] = o] /\ fault' = fault
      BY <1>3 DEF OnChatRouteBack, Dangling
    <3> HIDE DEF m
    <3>2. Live \subseteq Objs
      BY DEF Live
    <3>3. fate' \in [Asks -> Ends \cup Objs]
      BY <1>1, <3>1, <3>2 DEF Ends
    <3>4. fault \in BOOLEAN
      BY DEF ChatInv, GateInv, GateTypeOK
    <3>5. fault' \in BOOLEAN
      BY <3>1, <3>4, Zenon
    <3> QED BY <3>3, <3>5
  <2>5. NetInv'
    BY <2>1, NetNextInv DEF ChatInv, GateInv
  <2>6. GateTypeOK'
    BY <2>1, <2>4, <2>5 DEF ChatInv, GateInv, GateTypeOK, NetInv
  <2>7. PlayersInv'
    BY <2>1 DEF ChatInv, GateInv, PlayersInv, PoolExclusive, FreePlayers, RoutedToOwnPlayer,
       PlayerIsUnderItsSocket, PointersAreBorn, SocketsMatch, IdsMatch, UnservedHaveNone, netVars, Live
  <2>8. toGate' \in [NodeServers -> Seq(Packets)]
    BY <1>1, <2>1, <2>2
  <2>9. ChatTypeOK'
    BY <2>1, <2>4, <2>6, <2>8 DEF ChatInv, ChatTypeOK, nodeVars
  <2>10. BusyHaveId' /\ HolderIsNewest' /\ ReportedHaveEntry' /\ DistinctFds'
    BY <2>1 DEF ChatInv, BusyHaveId, HolderIsNewest, ReportedHaveEntry, DistinctFds, nodeVars
  <2> QED BY <2>5, <2>6, <2>7, <2>9, <2>10 DEF ChatInv, GateInv
<1> QED BY <1>2, <1>3

(* Every step of the route keeps the invariant. *)
LEMMA ChatNextInv == ChatInv /\ [ChatNext]_chatVars => ChatInv'
<1> SUFFICES ASSUME ChatInv, [ChatNext]_chatVars PROVE ChatInv'
  OBVIOUS
<1> USE ChatRouteAssumption
<1>1. CASE UNCHANGED chatVars
  <2>1. GateInv' /\ BusyHaveId' /\ HolderIsNewest'
    BY <1>1, PlayersUntouched DEF chatVars
  <2>2. ChatTypeOK' /\ ReportedHaveEntry' /\ DistinctFds'
    BY <1>1, <2>1 DEF chatVars, nodeVars, wireVars, ChatInv, ChatTypeOK, GateInv,
       ReportedHaveEntry, DistinctFds
  <2> QED BY <2>1, <2>2 DEF ChatInv
<1>2. CASE ChatNext
  <2>1. CASE PlayerServerStep
    BY <1>2, <2>1, PlayerServerInv DEF ChatNext
  <2>2. CASE \E fd \in FDs, o \in Objs : PlayerConnects(fd, o)
    BY <1>2, <2>2, PlayerConnectsInv DEF ChatNext
  <2>3. ASSUME NEW s \in NodeServers, NEW fd \in NodeFDs, ServerConnects(s, fd) PROVE ChatInv'
    BY <2>3, NodeStepInv
  <2>4. ASSUME NEW s \in NodeServers, OnReportToServer(s) \/ ServerDisconnects(s) PROVE ChatInv'
    <3>1. nodeFd[s] \in NodeFDs
      BY <2>4 DEF OnReportToServer, ServerDisconnects, ChatInv, ChatTypeOK
    <3> QED BY <2>4, <3>1, NodeStepInv
  <2>5. CASE \E o \in Objs, n \in Asks, id \in MsgIds : ClientAsks(o, n, id)
    BY <2>5, ClientAsksInv
  <2>6. ASSUME NEW s \in ChatServers, OnGateRouteChat(s) \/ OnChatRouteBack(s) PROVE ChatInv'
    BY <2>6, AnswerInv
  <2> QED BY <1>2, <2>1, <2>2, <2>3, <2>4, <2>5, <2>6 DEF ChatNext
<1> QED BY <1>1, <1>2

(* The types of the route: every packet carries the id that players have.  *)
THEOREM ChatTypeCorrect == ChatSpec => []ChatTypeOK
<1>1. ChatInv => ChatTypeOK
  BY DEF ChatInv
<1> QED BY <1>1, ChatInitInv, ChatNextInv, PTL DEF ChatSpec

(* An answer goes to the newest connection that got a player, while it     *)
(* lives, or to nobody (OnChatRouteBack, AddPlayerIDMap, DestoryPlayer).   *)
THEOREM AnswersReachNewest == ChatSpec => AnswersGoToNewest
<1> DEFINE Delivered ==
      \A n \in Asks : fate'[n] # fate[n] /\ fate'[n] \in Objs => fate'[n] = newest /\ newest \in Live
<1>1. ChatInv /\ [ChatNext]_chatVars => [Delivered]_chatVars
  <2> SUFFICES ASSUME ChatInv, ChatNext PROVE Delivered
    BY Zenon
  <2> USE ChatRouteAssumption
  <2>1. fate \in [Asks -> Ends \cup Objs]
    BY DEF ChatInv, ChatTypeOK
  <2>2. ASSUME NEW n \in Asks, NEW e \in Ends, fate' = [fate EXCEPT ![n] = e] PROVE Delivered
    BY <2>1, <2>2
  <2>3. CASE UNCHANGED fate
    BY <2>3
  <2>4. ASSUME NEW s \in NodeServers, ServerDisconnects(s) PROVE Delivered
    BY <2>1, <2>4 DEF ServerDisconnects, Ends
  <2>5. ASSUME NEW o \in Objs, NEW n \in Asks, NEW id \in MsgIds, ClientAsks(o, n, id) PROVE Delivered
    <3>1. fate' = [fate EXCEPT ![n] = "asked"] \/ fate' = [fate EXCEPT ![n] = "lost"]
      BY <2>5 DEF ClientAsks, SentPackToChat
    <3>2. "asked" \in Ends /\ "lost" \in Ends
      BY DEF Ends
    <3> QED BY <2>2, <3>1, <3>2
  <2>6. ASSUME NEW s \in ChatServers, OnChatRouteBack(s) PROVE Delivered
    <3> DEFINE m == Head(toGate[s])
    <3>1. m \in Packets
      <4>1. toGate[s] \in Seq(Packets)
        BY DEF ChatInv, ChatTypeOK
      <4> QED BY <2>6, <4>1 DEF OnChatRouteBack
    <3>2. \/ fate' = [fate EXCEPT ![m.n] = "unclaimed"]
          \/ fate' = fate
          \/ /\ m.player_id \in DOMAIN mPlayerIDMap
             /\ ~Dangling(mPlayerIDMap[m.player_id])
             /\ fate' = [fate EXCEPT ![m.n] = m_pNetObject[mPlayerIDMap[m.player_id]]]
      BY <2>6 DEF OnChatRouteBack
    <3> HIDE DEF m
    <3>3. m.n \in Asks /\ "unclaimed" \in Ends
      BY <3>1 DEF Packets, Ends
    <3>4. CASE /\ m.player_id \in DOMAIN mPlayerIDMap
               /\ ~Dangling(mPlayerIDMap[m.player_id])
               /\ fate' = [fate EXCEPT ![m.n] = m_pNetObject[mPlayerIDMap[m.player_id]]]
      <4>1. m_pNetObject[mPlayerIDMap[m.player_id]] = newest /\ newest \in Live
        BY <3>4 DEF ChatInv, HolderIsNewest, Dangling
      <4> QED BY <2>1, <3>3, <3>4, <4>1
    <3> QED BY <2>2, <2>3, <3>2, <3>3, <3>4
  <2>7. ASSUME NEW s \in ChatServers, OnGateRouteChat(s) PROVE Delivered
    <3>1. fate' = fate \/ fate' = [fate EXCEPT ![Head(toChat[s]).n] = "unhandled"]
      BY <2>7 DEF OnGateRouteChat
    <3>2. "unhandled" \in Ends
      BY DEF Ends
    <3> QED BY <2>1, <3>1, <3>2
  <2> QED BY <2>3, <2>4, <2>5, <2>6, <2>7 DEF ChatNext, PlayerServerStep, PlayerConnects,
            ServerConnects, OnReportToServer, wireVars
<1> QED BY <1>1, ChatInitInv, ChatNextInv, PTL DEF ChatSpec, AnswersGoToNewest

-----------------------------------------------------------------------------
(* What is on its way between the gate and a server was sent by a client.  *)
SentPackets == {m \in Packets : fate[m.n] # "unsent"}

InFlightWasSent ==
    /\ toChat \in [NodeServers -> Seq(SentPackets)]
    /\ toGate \in [NodeServers -> Seq(SentPackets)]

LEMMA SentInit == ChatInit => InFlightWasSent
<1> SUFFICES ASSUME ChatInit PROVE InFlightWasSent
  OBVIOUS
<1>1. <<>> \in Seq(SentPackets)
  OBVIOUS
<1> QED BY <1>1 DEF ChatInit, InFlightWasSent

LEMMA SeqMonotone ==
    ASSUME NEW S, NEW T, S \subseteq T, NEW f \in [NodeServers -> Seq(S)]
    PROVE  f \in [NodeServers -> Seq(T)]
<1>1. ASSUME NEW q \in Seq(S) PROVE q \in Seq(T)
  BY <1>1
<1> QED BY <1>1

(* No message becomes unsent again. *)
LEMMA FateIsKept ==
    ASSUME ChatInv, [ChatNext]_chatVars
    PROVE  \A n \in Asks : fate[n] # "unsent" => fate'[n] # "unsent"
<1> USE ChatRouteAssumption
<1>1. fate \in [Asks -> Ends \cup Objs]
  BY DEF ChatInv, ChatTypeOK
<1>2. ASSUME NEW n, NEW e, e # "unsent", fate' = [fate EXCEPT ![n] = e]
      PROVE  \A k \in Asks : fate[k] # "unsent" => fate'[k] # "unsent"
  BY <1>1, <1>2
<1>3. ASSUME NEW s, ServerDisconnects(s)
      PROVE  \A k \in Asks : fate[k] # "unsent" => fate'[k] # "unsent"
  BY <1>1, <1>3 DEF ServerDisconnects
<1>4. ASSUME NEW o, NEW n, NEW id, ClientAsks(o, n, id)
      PROVE  \A k \in Asks : fate[k] # "unsent" => fate'[k] # "unsent"
  BY <1>2, <1>4 DEF ClientAsks, SentPackToChat
<1>5. ASSUME NEW s, OnChatRouteBack(s)
      PROVE  \A k \in Asks : fate[k] # "unsent" => fate'[k] # "unsent"
  <2> DEFINE m == Head(toGate[s])
  <2>1. \/ fate' = [fate EXCEPT ![m.n] = "unclaimed"]
        \/ fate' = fate
        \/ \E o \in Objs : fate' = [fate EXCEPT ![m.n] = o]
    BY <1>5 DEF OnChatRouteBack, Dangling, Live
  <2>2. "unsent" \notin Objs
    BY DEF Ends
  <2> HIDE DEF m
  <2> QED BY <1>2, <2>1, <2>2
<1>6. ASSUME NEW s, OnGateRouteChat(s)
      PROVE  \A k \in Asks : fate[k] # "unsent" => fate'[k] # "unsent"
  BY <1>2, <1>6 DEF OnGateRouteChat
<1> QED BY <1>3, <1>4, <1>5, <1>6 DEF ChatNext, chatVars, wireVars, PlayerServerStep, PlayerConnects,
          ServerConnects, OnReportToServer

LEMMA SentNext == ChatInv /\ InFlightWasSent /\ [ChatNext]_chatVars => InFlightWasSent'
<1> SUFFICES ASSUME ChatInv, InFlightWasSent, [ChatNext]_chatVars PROVE InFlightWasSent'
  OBVIOUS
<1> USE ChatRouteAssumption
<1>1. SentPackets \subseteq SentPackets'
  BY FateIsKept DEF SentPackets, Packets
<1> DEFINE P == SentPackets'
<1>2. toChat \in [NodeServers -> Seq(P)] /\ toGate \in [NodeServers -> Seq(P)]
  BY <1>1, SeqMonotone DEF InFlightWasSent
<1> SUFFICES toChat' \in [NodeServers -> Seq(P)] /\ toGate' \in [NodeServers -> Seq(P)]
  BY DEF InFlightWasSent
<1>3. ASSUME NEW s \in NodeServers, ServerDisconnects(s)
      PROVE  toChat' \in [NodeServers -> Seq(P)] /\ toGate' \in [NodeServers -> Seq(P)]
  <2> HIDE DEF P
  <2>1. <<>> \in Seq(P)
    OBVIOUS
  <2> QED BY <1>2, <1>3, <2>1 DEF ServerDisconnects
<1>4. ASSUME NEW o \in Objs, NEW n \in Asks, NEW id \in MsgIds, ClientAsks(o, n, id)
      PROVE  toChat' \in [NodeServers -> Seq(P)] /\ toGate' \in [NodeServers -> Seq(P)]
  <2> DEFINE m == [player_id |-> m_PlayerId[mPlayerSockMap[objFd[o]]], n |-> n]
             t == CHOOSE t \in Receivers : TRUE
  <2>1. SentPackToChat(m) /\ toGate' = toGate
    BY <1>4 DEF ClientAsks
  <2>2. CASE ChatNodes # {} /\ Receivers \cap ChatServers # {}
    <3>1. toChat' = [toChat EXCEPT ![t] = Append(@, m)]
      BY <2>1, <2>2 DEF SentPackToChat
    <3>2. t \in NodeServers
      BY <2>2 DEF Receivers
    <3>3. toChat'[t] \in Seq(Packets) /\ toChat'[t] = Append(toChat[t], m)
      <4>1. ChatTypeOK'
        BY ChatNextInv DEF ChatInv
      <4> QED BY <1>2, <3>1, <3>2, <4>1 DEF ChatTypeOK
    <3> HIDE DEF t
    <3>4. m \in Packets
      <4> HIDE DEF m
      <4>1. toChat[t] \in Seq(P)
        BY <1>2, <3>2
      <4>2. Append(toChat[t], m) \in Seq(Packets)
        BY <3>3
      <4>3. Len(toChat[t]) + 1 \in 1 .. Len(Append(toChat[t], m))
        BY <4>1
      <4>4. Append(toChat[t], m)[Len(toChat[t]) + 1] = m
        BY <4>1
      <4> QED BY <4>2, <4>3, <4>4
    <3>5. fate' = [fate EXCEPT ![n] = "asked"]
      BY <2>1, <2>2 DEF SentPackToChat
    <3>6. m \in P
      BY <3>4, <3>5 DEF SentPackets, ChatInv, ChatTypeOK
    <3> HIDE DEF m, P
    <3>7. Append(toChat[t], m) \in Seq(P)
      BY <1>2, <3>2, <3>6
    <3> QED BY <1>2, <2>1, <3>1, <3>2, <3>7
  <2>3. CASE ~(ChatNodes # {} /\ Receivers \cap ChatServers # {})
    BY <1>2, <2>1, <2>3 DEF SentPackToChat
  <2> QED BY <2>2, <2>3
<1>5. ASSUME NEW s \in NodeServers, OnGateRouteChat(s)
      PROVE  toChat' \in [NodeServers -> Seq(P)] /\ toGate' \in [NodeServers -> Seq(P)]
  <2> HIDE DEF P
  <2>1. Head(toChat[s]) \in P /\ Tail(toChat[s]) \in Seq(P)
    BY <1>2, <1>5 DEF OnGateRouteChat
  <2>2. Append(toGate[s], Head(toChat[s])) \in Seq(P)
    BY <1>2, <2>1
  <2> QED BY <1>2, <1>5, <2>1, <2>2 DEF OnGateRouteChat, ChatToGate
<1>6. ASSUME NEW s \in NodeServers, OnChatRouteBack(s)
      PROVE  toChat' \in [NodeServers -> Seq(P)] /\ toGate' \in [NodeServers -> Seq(P)]
  <2> HIDE DEF P
  <2>1. Tail(toGate[s]) \in Seq(P)
    BY <1>2, <1>6 DEF OnChatRouteBack
  <2> QED BY <1>2, <1>6, <2>1 DEF OnChatRouteBack
<1> QED BY <1>2, <1>3, <1>4, <1>5, <1>6 DEF ChatNext, chatVars, wireVars, PlayerServerStep,
          PlayerConnects, ServerConnects, OnReportToServer

(* The register has a first chat server as soon as it has any. *)
LEMMA FirstExists ==
    ASSUME ChatNodes # {}
    PROVE  Min(ChatNodes) \in ChatNodes
<1>1. ChatNodes \subseteq Nat
  BY ChatRouteAssumption DEF ChatNodes
<1>2. PICK s \in ChatNodes : \A t \in ChatNodes : ~ (<<t, s>> \in OpToRel(<, Nat))
  BY <1>1, NatLessThanWellFounded, WFMin, Zenon
<1>3. \A t \in ChatNodes : ~ (t < s)
  BY <1>1, <1>2, Zenon DEF OpToRel
<1>4. \A t \in ChatNodes : s <= t
  BY <1>1, <1>3
<1> QED BY <1>4 DEF Min

(* A chat message is not lost when it is sent while the first chat server  *)
(* has reported, whatever stale entries the register holds (GateNodeServer *)
(* OnClientDisconnect, OnReportToServer, SentPackToChat).                  *)
THEOREM ReportedServerGetsIt == ChatSpec => FirstChatServerGetsIt
<1> DEFINE Handed ==
      \A n \in Asks :
          /\ fate[n] = "unsent" /\ fate'[n] # "unsent"
          /\ ChatNodes # {} /\ Min(ChatNodes) \in reported
          => fate'[n] = "asked" /\ toChat'[Min(ChatNodes)] # toChat[Min(ChatNodes)]
<1>1. ChatInv /\ InFlightWasSent /\ [ChatNext]_chatVars => [Handed]_chatVars
  <2> SUFFICES ASSUME ChatInv, InFlightWasSent, ChatNext PROVE Handed
    BY Zenon
  <2> USE ChatRouteAssumption
  <2>1. fate \in [Asks -> Ends \cup Objs] /\ toChat \in [NodeServers -> Seq(Packets)]
    BY DEF ChatInv, ChatTypeOK
  <2>2. CASE UNCHANGED fate
    BY <2>2
  <2>3. ASSUME NEW s \in NodeServers, ServerDisconnects(s) PROVE Handed
    <3>1. toChat[s] \in Seq(SentPackets) /\ toGate[s] \in Seq(SentPackets)
      BY DEF InFlightWasSent
    <3>2. \A q \in Seq(SentPackets) : \A i \in DOMAIN q : fate[q[i].n] # "unsent"
      BY DEF SentPackets
    <3>3. \A n \in InFlight(s) : fate[n] # "unsent"
      BY <3>1, <3>2 DEF InFlight
    <3> QED BY <2>1, <2>3, <3>3 DEF ServerDisconnects
  <2>4. ASSUME NEW s \in NodeServers, OnChatRouteBack(s) PROVE Handed
    <3>1. Head(toGate[s]) \in SentPackets
      BY <2>4 DEF OnChatRouteBack, InFlightWasSent
    <3>2. \A n \in Asks : fate'[n] # fate[n] => n = Head(toGate[s]).n
      BY <2>1, <2>4 DEF OnChatRouteBack
    <3> QED BY <3>1, <3>2 DEF SentPackets
  <2>5. ASSUME NEW o \in Objs, NEW n \in Asks, NEW id \in MsgIds, ClientAsks(o, n, id),
               ChatNodes # {}, Min(ChatNodes) \in reported
        PROVE  fate'[n] = "asked" /\ toChat'[Min(ChatNodes)] # toChat[Min(ChatNodes)]
    <3> DEFINE s == Min(ChatNodes)
               m == [player_id |-> m_PlayerId[mPlayerSockMap[objFd[o]]], n |-> n]
    <3>1. s \in ChatServers /\ s \in NodeServers /\ nodeFd[s] # NoFd /\ nodeFd[s] = m_mClientNodes[s]
      BY <2>5, FirstExists DEF ChatNodes, ChatInv, ReportedHaveEntry
    <3>2. Receivers = {s}
      BY <3>1 DEF Receivers, ChatInv, DistinctFds
    <3>3. SentPackToChat(m)
      BY <2>5 DEF ClientAsks
    <3> HIDE DEF s, m
    <3>4. Receivers \cap ChatServers # {} /\ (CHOOSE t \in Receivers : TRUE) = s
      BY <3>1, <3>2
    <3>5. /\ toChat' = [toChat EXCEPT ![s] = Append(@, m)]
          /\ fate' = [fate EXCEPT ![m.n] = "asked"]
      BY <2>5, <3>3, <3>4 DEF SentPackToChat
    <3>6. m.n = n
      BY DEF m
    <3>7. toChat'[s] # toChat[s]
      <4>1. toChat[s] \in Seq(Packets) /\ toChat'[s] = Append(toChat[s], m)
        BY <2>1, <3>1, <3>5
      <4>2. Len(Append(toChat[s], m)) = Len(toChat[s]) + 1 /\ Len(toChat[s]) \in Nat
        BY <4>1
      <4> QED BY <4>1, <4>2
    <3> QED BY <2>1, <3>5, <3>6, <3>7 DEF s
  <2>6. ASSUME NEW o \in Objs, NEW n \in Asks, NEW id \in MsgIds, ClientAsks(o, n, id) PROVE Handed
    <3>1. \A k \in Asks : fate'[k] # fate[k] => k = n
      BY <2>1, <2>6 DEF ClientAsks, SentPackToChat
    <3> QED BY <2>5, <2>6, <3>1
  <2>7. ASSUME NEW s \in NodeServers, OnGateRouteChat(s) PROVE Handed
    <3>1. Head(toChat[s]) \in SentPackets
      BY <2>7 DEF OnGateRouteChat, InFlightWasSent
    <3>2. \A n \in Asks : fate'[n] # fate[n] => n = Head(toChat[s]).n
      BY <2>1, <2>7 DEF OnGateRouteChat
    <3> QED BY <3>1, <3>2 DEF SentPackets
  <2> QED BY <2>2, <2>3, <2>4, <2>6, <2>7 DEF ChatNext, PlayerServerStep, PlayerConnects,
            ServerConnects, OnReportToServer, wireVars
<1> QED BY <1>1, ChatInitInv, ChatNextInv, SentInit, SentNext, PTL DEF ChatSpec, FirstChatServerGetsIt

-----------------------------------------------------------------------------
(* What the route owes to one chat message: until it is settled it is on   *)
(* the wire of exactly one server, once, and what was settled stays so.    *)

Numbers(q) == {q[i].n : i \in DOMAIN q}

EachOnce(q) == \A i, j \in DOMAIN q : q[i].n = q[j].n => i = j

(* No message is duplicated on its way, nor put on the wires of two        *)
(* servers (SentPackToChat, OnGateRouteChat).                              *)
PacketsInOnePlace ==
    /\ \A s \in NodeServers : /\ EachOnce(toChat[s]) /\ EachOnce(toGate[s])
                              /\ Numbers(toChat[s]) \cap Numbers(toGate[s]) = {}
    /\ \A s, t \in NodeServers : s # t => InFlight(s) \cap InFlight(t) = {}

(* A client that still waits for its answer has a message on its way, and  *)
(* no message is on its way whose client was answered or has lost it.      *)
AskedIsOnItsWay ==
    ~fault => \A n \in Asks : fate[n] = "asked" <=> \E s \in NodeServers : n \in InFlight(s)

(* A client is answered at most once, and not after its message was lost   *)
(* or found nobody (ServerDisconnects, OnChatRouteBack).                   *)
SettledForGood ==
    [][ \A n \in Asks : fate[n] \notin {"unsent", "asked"} => fate'[n] = fate[n] ]_chatVars

RouteInv == ChatInv /\ (~fault => PacketsInOnePlace) /\ AskedIsOnItsWay

(* Taking the first packet of a queue that holds each message once. *)
LEMMA FirstTaken ==
    ASSUME NEW q \in Seq(Packets), q # <<>>, EachOnce(q)
    PROVE  /\ Head(q) \in Packets /\ Tail(q) \in Seq(Packets)
           /\ Head(q).n \in Numbers(q)
           /\ Numbers(Tail(q)) = Numbers(q) \ {Head(q).n}
           /\ EachOnce(Tail(q))
<1>1. /\ Len(q) \in Nat \ {0} /\ Head(q) = q[1] /\ DOMAIN q = 1 .. Len(q)
      /\ Len(Tail(q)) = Len(q) - 1 /\ DOMAIN Tail(q) = 1 .. (Len(q) - 1)
      /\ \A i \in 1 .. (Len(q) - 1) : Tail(q)[i] = q[i + 1]
      /\ Head(q) \in Packets /\ Tail(q) \in Seq(Packets)
  OBVIOUS
<1>2. \A i, j \in DOMAIN q : q[i].n = q[j].n => i = j
  BY DEF EachOnce
<1>3. Numbers(Tail(q)) \subseteq Numbers(q) \ {Head(q).n}
  BY <1>1, <1>2 DEF Numbers
<1>4. ASSUME NEW i \in DOMAIN q, q[i].n # Head(q).n PROVE q[i].n \in Numbers(Tail(q))
  <2>1. i # 1 /\ i - 1 \in 1 .. (Len(q) - 1) /\ (i - 1) + 1 = i
    BY <1>1, <1>4
  <2>2. Tail(q)[i - 1] = q[i]
    BY <1>1, <2>1
  <2> QED BY <1>1, <2>1, <2>2 DEF Numbers
<1>5. EachOnce(Tail(q))
  BY <1>1, <1>2 DEF EachOnce
<1>6. Head(q).n \in Numbers(q)
  BY <1>1 DEF Numbers
<1>7. Numbers(q) \ {Head(q).n} \subseteq Numbers(Tail(q))
  BY <1>4 DEF Numbers
<1> QED BY <1>1, <1>3, <1>5, <1>6, <1>7

(* Sending a packet behind the others. *)
LEMMA LastSent ==
    ASSUME NEW q \in Seq(Packets), NEW m \in Packets
    PROVE  /\ Append(q, m) \in Seq(Packets)
           /\ Numbers(Append(q, m)) = Numbers(q) \cup {m.n}
           /\ EachOnce(q) /\ m.n \notin Numbers(q) => EachOnce(Append(q, m))
<1>1. /\ Len(q) \in Nat /\ DOMAIN q = 1 .. Len(q) /\ Append(q, m) \in Seq(Packets)
      /\ DOMAIN Append(q, m) = 1 .. (Len(q) + 1)
      /\ \A i \in 1 .. Len(q) : Append(q, m)[i] = q[i]
      /\ Append(q, m)[Len(q) + 1] = m
  OBVIOUS
<1>2. \A i \in DOMAIN Append(q, m) : i \in DOMAIN q \/ i = Len(q) + 1
  BY <1>1
<1>3. Numbers(Append(q, m)) = Numbers(q) \cup {m.n}
  <2>1. Numbers(Append(q, m)) \subseteq Numbers(q) \cup {m.n}
    BY <1>1, <1>2 DEF Numbers
  <2>2. m.n \in Numbers(Append(q, m))
    BY <1>1 DEF Numbers
  <2>3. ASSUME NEW i \in DOMAIN q PROVE q[i].n \in Numbers(Append(q, m))
    BY <1>1 DEF Numbers
  <2> QED BY <2>1, <2>2, <2>3 DEF Numbers
<1>4. ASSUME EachOnce(q), m.n \notin Numbers(q) PROVE EachOnce(Append(q, m))
  BY <1>1, <1>2, <1>4 DEF EachOnce, Numbers
<1> QED BY <1>1, <1>3, <1>4

LEMMA InFlightNumbers ==
    ASSUME NEW s PROVE InFlight(s) = Numbers(toChat[s]) \cup Numbers(toGate[s])
BY DEF InFlight, Numbers

LEMMA InFlightNumbersNext ==
    ASSUME NEW s PROVE InFlight(s)' = Numbers(toChat'[s]) \cup Numbers(toGate'[s])
BY DEF InFlight, Numbers

LEMMA RouteInitInv == ChatInit => RouteInv
<1> SUFFICES ASSUME ChatInit PROVE RouteInv
  OBVIOUS
<1>1. \A s \in NodeServers : toChat[s] = <<>> /\ toGate[s] = <<>>
  BY DEF ChatInit
<1>2. Numbers(<<>>) = {} /\ EachOnce(<<>>)
  BY DEF Numbers, EachOnce
<1>3. \A s \in NodeServers : InFlight(s) = {}
  BY <1>1, <1>2, InFlightNumbers
<1>4. PacketsInOnePlace
  BY <1>1, <1>2, <1>3 DEF PacketsInOnePlace
<1>5. \A n \in Asks : fate[n] # "asked"
  BY DEF ChatInit
<1> QED BY <1>3, <1>4, <1>5, ChatInitInv DEF RouteInv, AskedIsOnItsWay

(* A step that leaves the wires and the fates alone. *)
LEMMA RouteUntouched ==
    ASSUME RouteInv, ChatInv', fault' \/ ~fault, UNCHANGED <<toChat, toGate, fate>>
    PROVE  RouteInv'
<1>1. \A s : InFlight(s)' = InFlight(s)
  BY DEF InFlight
<1> QED BY <1>1 DEF RouteInv, PacketsInOnePlace, AskedIsOnItsWay

(* The facts the other steps start from. *)
LEMMA RouteFacts ==
    ASSUME RouteInv, ~fault
    PROVE  /\ PacketsInOnePlace
           /\ \A n \in Asks : fate[n] = "asked" <=> \E s \in NodeServers : n \in InFlight(s)
           /\ fate \in [Asks -> Ends \cup Objs]
           /\ toChat \in [NodeServers -> Seq(Packets)] /\ toGate \in [NodeServers -> Seq(Packets)]
BY DEF RouteInv, AskedIsOnItsWay, ChatInv, ChatTypeOK

(* What is in flight is lost with the connection, and nothing else is. *)
LEMMA RouteBreaks ==
    ASSUME RouteInv, ~fault, ChatInv', NEW s \in NodeServers, ServerDisconnects(s)
    PROVE  RouteInv'
<1>1. /\ PacketsInOnePlace
      /\ \A n \in Asks : fate[n] = "asked" <=> \E t \in NodeServers : n \in InFlight(t)
      /\ toChat \in [NodeServers -> Seq(Packets)] /\ toGate \in [NodeServers -> Seq(Packets)]
  BY RouteFacts
<1>2. /\ toChat'[s] = <<>> /\ toGate'[s] = <<>>
      /\ \A t \in NodeServers \ {s} : toChat'[t] = toChat[t] /\ toGate'[t] = toGate[t]
      /\ \A n \in Asks : fate'[n] = IF n \in InFlight(s) THEN "lost" ELSE fate[n]
  BY <1>1 DEF ServerDisconnects
<1>3. Numbers(<<>>) = {} /\ EachOnce(<<>>)
  BY DEF Numbers, EachOnce
<1>4. InFlight(s)' = {} /\ \A t \in NodeServers \ {s} : InFlight(t)' = InFlight(t)
  BY <1>2, <1>3, InFlightNumbers, InFlightNumbersNext
<1>5. PacketsInOnePlace'
  BY <1>1, <1>2, <1>3, <1>4 DEF PacketsInOnePlace
<1>6. ASSUME NEW n \in Asks
      PROVE  fate'[n] = "asked" <=> \E t \in NodeServers : n \in InFlight(t)'
  <2>1. CASE n \in InFlight(s)
    <3>1. fate'[n] = "lost"
      BY <1>2, <2>1
    <3>2. \A t \in NodeServers \ {s} : n \notin InFlight(t)
      BY <1>1, <2>1 DEF PacketsInOnePlace
    <3>3. \A t \in NodeServers : n \notin InFlight(t)'
      BY <1>4, <3>2
    <3> QED BY <3>1, <3>3
  <2>2. CASE n \notin InFlight(s)
    <3>1. fate'[n] = fate[n]
      BY <1>2, <2>2
    <3>2. \A t \in NodeServers : n \in InFlight(t)' <=> n \in InFlight(t)
      BY <1>4, <2>2
    <3> QED BY <1>1, <3>1, <3>2
  <2> QED BY <2>1, <2>2
<1> QED BY <1>5, <1>6 DEF RouteInv, AskedIsOnItsWay

(* A client's message goes to one server or is lost. *)
LEMMA RouteAsks ==
    ASSUME RouteInv, ~fault, ChatInv', InFlightWasSent, InFlightWasSent',
           NEW o \in Objs, NEW n \in Asks, NEW id \in MsgIds, ClientAsks(o, n, id)
    PROVE  RouteInv'
<1> USE ChatRouteAssumption
<1> DEFINE m == [player_id |-> m_PlayerId[mPlayerSockMap[objFd[o]]], n |-> n]
<1>1. /\ PacketsInOnePlace
      /\ \A k \in Asks : fate[k] = "asked" <=> \E s \in NodeServers : k \in InFlight(s)
      /\ fate \in [Asks -> Ends \cup Objs]
      /\ toChat \in [NodeServers -> Seq(Packets)] /\ toGate \in [NodeServers -> Seq(Packets)]
  BY RouteFacts
<1>2. SentPackToChat(m) /\ toGate' = toGate /\ fate[n] = "unsent" /\ m.n = n
  BY DEF ClientAsks
<1>3. \A s \in NodeServers : n \notin InFlight(s)
  BY <1>1, <1>2
<1>4. CASE ChatNodes # {} /\ Receivers \cap ChatServers # {}
  <2> PICK t \in NodeServers : toChat' = [toChat EXCEPT ![t] = Append(@, m)]
    BY <1>2, <1>4 DEF SentPackToChat, Receivers
  <2>2. fate' = [fate EXCEPT ![n] = "asked"]
    BY <1>2, <1>4 DEF SentPackToChat
  <2> HIDE DEF m
  <2>3. toChat[t] \in Seq(Packets) /\ toChat'[t] = Append(toChat[t], m)
    BY <1>1, <2>2
  <2>4. m \in Packets
    <3>1. toChat'[t] \in Seq(Packets)
      BY DEF ChatInv, ChatTypeOK
    <3>2. Append(toChat[t], m) \in Seq(Packets)
      BY <2>3, <3>1
    <3>3. Len(toChat[t]) + 1 \in 1 .. Len(Append(toChat[t], m))
      BY <2>3
    <3>4. Append(toChat[t], m)[Len(toChat[t]) + 1] = m
      BY <2>3
    <3> QED BY <3>2, <3>3, <3>4
  <2>5. n \notin Numbers(toChat[t]) /\ n \notin Numbers(toGate[t])
    BY <1>3, InFlightNumbers
  <2>6. /\ Numbers(toChat'[t]) = Numbers(toChat[t]) \cup {n}
        /\ EachOnce(toChat[t]) => EachOnce(toChat'[t])
    BY <1>2, <2>3, <2>4, <2>5, LastSent
  <2>7. \A s \in NodeServers \ {t} : toChat'[s] = toChat[s]
    BY <1>1, <2>2
  <2>8. /\ InFlight(t)' = InFlight(t) \cup {n}
        /\ \A s \in NodeServers \ {t} : InFlight(s)' = InFlight(s)
    BY <1>2, <2>6, <2>7, InFlightNumbers, InFlightNumbersNext
  <2>9. PacketsInOnePlace'
    <3>1. \A s \in NodeServers :
            /\ EachOnce(toChat'[s]) /\ EachOnce(toGate'[s])
            /\ Numbers(toChat'[s]) \cap Numbers(toGate'[s]) = {}
      BY <1>1, <1>2, <2>5, <2>6, <2>7 DEF PacketsInOnePlace
    <3>2. \A s, u \in NodeServers : s # u => InFlight(s)' \cap InFlight(u)' = {}
      <4>1. \A s, u \in NodeServers : s # u => InFlight(s) \cap InFlight(u) = {}
        BY <1>1 DEF PacketsInOnePlace
      <4> QED BY <1>3, <2>8, <4>1
    <3> QED BY <3>1, <3>2 DEF PacketsInOnePlace
  <2>10. \A k \in Asks : fate'[k] = "asked" <=> \E s \in NodeServers : k \in InFlight(s)'
    <3>1. fate'[n] = "asked" /\ \A k \in Asks \ {n} : fate'[k] = fate[k]
      BY <1>1, <2>2
    <3>2. n \in InFlight(t)'
      BY <2>8
    <3>3. \A k \in Asks \ {n}, s \in NodeServers : k \in InFlight(s)' <=> k \in InFlight(s)
      BY <2>8
    <3> QED BY <1>1, <3>1, <3>2, <3>3
  <2> QED BY <2>9, <2>10 DEF RouteInv, AskedIsOnItsWay
<1>5. CASE ~(ChatNodes # {} /\ Receivers \cap ChatServers # {})
  <2>1. toChat' = toChat /\ fate' = [fate EXCEPT ![n] = "lost"]
    BY <1>2, <1>5 DEF SentPackToChat
  <2>2. \A s : InFlight(s)' = InFlight(s)
    BY <1>2, <2>1 DEF InFlight
  <2>3. PacketsInOnePlace'
    BY <1>1, <1>2, <2>1, <2>2 DEF PacketsInOnePlace
  <2>4. \A k \in Asks : fate'[k] = "asked" <=> \E s \in NodeServers : k \in InFlight(s)'
    BY <1>1, <1>3, <2>1, <2>2
  <2> QED BY <2>3, <2>4 DEF RouteInv, AskedIsOnItsWay
<1> QED BY <1>4, <1>5

(* The packet the chat server takes was waited for; it is answered, or, if it *)
(* has no handler, dropped.                                                   *)
LEMMA ForthTaken ==
    ASSUME RouteInv, ~fault, NEW s \in NodeServers, OnGateRouteChat(s)
    PROVE  /\ Head(toChat[s]).n \in Asks
           /\ Head(toChat[s]).n \in InFlight(s) /\ fate[Head(toChat[s]).n] = "asked"
           /\ \/ /\ fate' = fate /\ toChat' = [toChat EXCEPT ![s] = Tail(@)]
                 /\ toGate' = [toGate EXCEPT ![s] = Append(@, Head(toChat[s]))]
              \/ /\ fate' = [fate EXCEPT ![Head(toChat[s]).n] = "unhandled"]
                 /\ toChat' = [toChat EXCEPT ![s] = Tail(@)] /\ toGate' = toGate
<1> DEFINE m == Head(toChat[s])
<1>1. /\ PacketsInOnePlace
      /\ \A k \in Asks : fate[k] = "asked" <=> \E t \in NodeServers : k \in InFlight(t)
      /\ toChat \in [NodeServers -> Seq(Packets)]
  BY RouteFacts
<1>2. m \in Packets /\ m.n \in Numbers(toChat[s])
  <2>1. toChat[s] # <<>> /\ EachOnce(toChat[s]) /\ toChat[s] \in Seq(Packets)
    BY <1>1 DEF OnGateRouteChat, PacketsInOnePlace
  <2> QED BY <2>1, FirstTaken
<1>3. m.n \in Asks /\ m.n \in InFlight(s)
  BY <1>2, InFlightNumbers DEF Packets
<1>4. fate[m.n] = "asked"
  BY <1>1, <1>3
<1>5. \/ /\ fate' = fate /\ toChat' = [toChat EXCEPT ![s] = Tail(@)]
         /\ toGate' = [toGate EXCEPT ![s] = Append(@, m)]
      \/ /\ fate' = [fate EXCEPT ![m.n] = "unhandled"]
         /\ toChat' = [toChat EXCEPT ![s] = Tail(@)] /\ toGate' = toGate
  BY DEF OnGateRouteChat, ChatToGate
<1> QED BY <1>3, <1>4, <1>5

(* The chat server moves a packet from one wire to the other. *)
LEMMA RouteForth ==
    ASSUME RouteInv, ~fault, ChatInv', NEW s \in NodeServers, OnGateRouteChat(s), fate' = fate
    PROVE  RouteInv'
<1> DEFINE m == Head(toChat[s])
<1>1. /\ PacketsInOnePlace
      /\ \A k \in Asks : fate[k] = "asked" <=> \E t \in NodeServers : k \in InFlight(t)
      /\ toChat \in [NodeServers -> Seq(Packets)] /\ toGate \in [NodeServers -> Seq(Packets)]
  BY RouteFacts
<1>2. /\ toChat[s] # <<>> /\ fate' = fate
      /\ toChat'[s] = Tail(toChat[s]) /\ toGate'[s] = Append(toGate[s], m)
      /\ \A t \in NodeServers \ {s} : toChat'[t] = toChat[t] /\ toGate'[t] = toGate[t]
  <2>1. /\ m.n \in Asks /\ fate[m.n] = "asked" /\ fate \in [Asks -> Ends \cup Objs]
    BY ForthTaken, RouteFacts
  <2>2. fate # [fate EXCEPT ![m.n] = "unhandled"]
    BY <2>1
  <2>3. toGate' = [toGate EXCEPT ![s] = Append(@, m)] /\ toChat' = [toChat EXCEPT ![s] = Tail(@)]
    BY <2>2, ForthTaken
  <2> QED BY <1>1, <2>3 DEF OnGateRouteChat
<1>3. EachOnce(toChat[s]) /\ EachOnce(toGate[s]) /\ Numbers(toChat[s]) \cap Numbers(toGate[s]) = {}
  BY <1>1 DEF PacketsInOnePlace
<1>4. /\ m \in Packets /\ m.n \in Numbers(toChat[s])
      /\ Numbers(toChat'[s]) = Numbers(toChat[s]) \ {m.n} /\ EachOnce(toChat'[s])
  BY <1>1, <1>2, <1>3, FirstTaken
<1> HIDE DEF m
<1>5. Numbers(toGate'[s]) = Numbers(toGate[s]) \cup {m.n} /\ EachOnce(toGate'[s])
  <2>1. toGate[s] \in Seq(Packets) /\ m.n \notin Numbers(toGate[s])
    BY <1>1, <1>3, <1>4
  <2> QED BY <1>2, <1>3, <1>4, <2>1, LastSent
<1>6. \A t \in NodeServers : InFlight(t)' = InFlight(t)
  BY <1>2, <1>4, <1>5, InFlightNumbers, InFlightNumbersNext
<1>7. PacketsInOnePlace'
  BY <1>1, <1>2, <1>3, <1>4, <1>5, <1>6 DEF PacketsInOnePlace
<1>8. \A k \in Asks : fate'[k] = "asked" <=> \E t \in NodeServers : k \in InFlight(t)'
  BY <1>1, <1>2, <1>6
<1> QED BY <1>7, <1>8 DEF RouteInv, AskedIsOnItsWay

(* A packet without a handler is taken off the wire as its client's message *)
(* is settled.                                                              *)
LEMMA RouteDrops ==
    ASSUME RouteInv, ~fault, ChatInv', NEW s \in NodeServers, OnGateRouteChat(s), fate' # fate
    PROVE  RouteInv'
<1> DEFINE m == Head(toChat[s])
<1>1. /\ PacketsInOnePlace
      /\ \A k \in Asks : fate[k] = "asked" <=> \E t \in NodeServers : k \in InFlight(t)
      /\ fate \in [Asks -> Ends \cup Objs]
      /\ toChat \in [NodeServers -> Seq(Packets)]
  BY RouteFacts
<1>2. /\ toChat[s] # <<>> /\ toGate' = toGate /\ toChat'[s] = Tail(toChat[s])
      /\ \A t \in NodeServers \ {s} : toChat'[t] = toChat[t]
      /\ fate' = [fate EXCEPT ![m.n] = "unhandled"]
  BY <1>1, ForthTaken DEF OnGateRouteChat
<1>3. EachOnce(toChat[s]) /\ Numbers(toChat[s]) \cap Numbers(toGate[s]) = {}
  BY <1>1 DEF PacketsInOnePlace
<1>4. /\ m.n \in Numbers(toChat[s])
      /\ Numbers(toChat'[s]) = Numbers(toChat[s]) \ {m.n} /\ EachOnce(toChat'[s])
  BY <1>1, <1>2, <1>3, FirstTaken
<1>5. m.n \in Asks /\ m.n \in InFlight(s)
  BY ForthTaken
<1> HIDE DEF m
<1>7. /\ InFlight(s)' = InFlight(s) \ {m.n}
      /\ \A t \in NodeServers \ {s} : InFlight(t)' = InFlight(t)
  BY <1>2, <1>3, <1>4, InFlightNumbers, InFlightNumbersNext
<1>8. PacketsInOnePlace'
  <2>1. ASSUME NEW t \in NodeServers
        PROVE  /\ EachOnce(toChat'[t]) /\ EachOnce(toGate'[t])
               /\ Numbers(toChat'[t]) \cap Numbers(toGate'[t]) = {}
    <3>1. CASE t = s
      BY <1>1, <1>2, <1>3, <1>4, <3>1 DEF PacketsInOnePlace
    <3>2. CASE t # s
      BY <1>1, <1>2, <3>2 DEF PacketsInOnePlace
    <3> QED BY <3>1, <3>2
  <2>2. \A t, u \in NodeServers : t # u => InFlight(t)' \cap InFlight(u)' = {}
    BY <1>1, <1>7 DEF PacketsInOnePlace
  <2> QED BY <2>1, <2>2 DEF PacketsInOnePlace
<1>9. ASSUME NEW k \in Asks
      PROVE  fate'[k] = "asked" <=> \E t \in NodeServers : k \in InFlight(t)'
  <2>1. CASE k = m.n
    <3>1. fate'[k] # "asked"
      BY <1>1, <1>2, <2>1
    <3>2. \A t \in NodeServers : k \notin InFlight(t)'
      BY <1>1, <1>5, <1>7, <2>1 DEF PacketsInOnePlace
    <3> QED BY <3>1, <3>2
  <2>2. CASE k # m.n
    <3>1. fate'[k] = fate[k]
      BY <1>1, <1>2, <2>2
    <3>2. \A t \in NodeServers : k \in InFlight(t)' <=> k \in InFlight(t)
      BY <1>7, <2>2
    <3> QED BY <1>1, <3>1, <3>2
  <2> QED BY <2>1, <2>2
<1> QED BY <1>8, <1>9 DEF RouteInv, AskedIsOnItsWay

(* The packet the gate takes was waited for; if no player is dangling, it  *)
(* is settled.                                                             *)
LEMMA BackTaken ==
    ASSUME RouteInv, ~fault, NEW s \in NodeServers, OnChatRouteBack(s)
    PROVE  /\ Head(toGate[s]).n \in Asks
           /\ Head(toGate[s]).n \in InFlight(s) /\ fate[Head(toGate[s]).n] = "asked"
           /\ fate' = fate \/ \E e : e # "asked" /\ fate' = [fate EXCEPT ![Head(toGate[s]).n] = e]
           /\ ~fault' => fate' # fate
<1> USE ChatRouteAssumption
<1> DEFINE m == Head(toGate[s])
<1>1. /\ PacketsInOnePlace
      /\ \A k \in Asks : fate[k] = "asked" <=> \E t \in NodeServers : k \in InFlight(t)
      /\ fate \in [Asks -> Ends \cup Objs] /\ toGate \in [NodeServers -> Seq(Packets)]
  BY RouteFacts
<1>2. m \in Packets /\ m.n \in Numbers(toGate[s])
  <2>1. toGate[s] # <<>> /\ EachOnce(toGate[s]) /\ toGate[s] \in Seq(Packets)
    BY <1>1 DEF OnChatRouteBack, PacketsInOnePlace
  <2> QED BY <2>1, FirstTaken
<1>3. m.n \in Asks /\ m.n \in InFlight(s)
  BY <1>2, InFlightNumbers DEF Packets
<1>4. fate[m.n] = "asked"
  BY <1>1, <1>3
<1>5. \/ fate' = [fate EXCEPT ![m.n] = "unclaimed"]
      \/ fault' /\ fate' = fate
      \/ \E o \in Objs : fate' = [fate EXCEPT ![m.n] = o]
  BY DEF OnChatRouteBack, Dangling, Live
<1>6. "asked" \notin Objs
  BY DEF Ends
<1> HIDE DEF m
<1>7. ASSUME NEW e, e # "asked", fate' = [fate EXCEPT ![m.n] = e]
      PROVE  fate' # fate
  BY <1>1, <1>3, <1>4, <1>7
<1>8. \/ fault' /\ fate' = fate
      \/ \E e : e # "asked" /\ fate' = [fate EXCEPT ![m.n] = e]
  BY <1>5, <1>6
<1> QED BY <1>3, <1>4, <1>7, <1>8 DEF m

(* An answer is taken off the wire as its client's message is settled. *)
LEMMA RouteBack ==
    ASSUME RouteInv, ~fault, ChatInv', NEW s \in NodeServers, OnChatRouteBack(s)
    PROVE  RouteInv'
<1> SUFFICES ASSUME ~fault' PROVE RouteInv'
  BY DEF RouteInv, AskedIsOnItsWay
<1> DEFINE m == Head(toGate[s])
<1>1. /\ PacketsInOnePlace
      /\ \A k \in Asks : fate[k] = "asked" <=> \E t \in NodeServers : k \in InFlight(t)
      /\ fate \in [Asks -> Ends \cup Objs]
      /\ toGate \in [NodeServers -> Seq(Packets)]
  BY RouteFacts
<1>2. /\ toGate[s] # <<>> /\ toChat' = toChat /\ toGate'[s] = Tail(toGate[s])
      /\ \A t \in NodeServers \ {s} : toGate'[t] = toGate[t]
  BY <1>1 DEF OnChatRouteBack
<1>3. EachOnce(toGate[s]) /\ Numbers(toChat[s]) \cap Numbers(toGate[s]) = {}
  BY <1>1 DEF PacketsInOnePlace
<1>4. /\ m.n \in Numbers(toGate[s])
      /\ Numbers(toGate'[s]) = Numbers(toGate[s]) \ {m.n} /\ EachOnce(toGate'[s])
  BY <1>1, <1>2, <1>3, FirstTaken
<1>5. m.n \in Asks /\ m.n \in InFlight(s)
  BY BackTaken
<1>6. PICK e : e # "asked" /\ fate' = [fate EXCEPT ![m.n] = e]
  BY BackTaken
<1> HIDE DEF m
<1>7. /\ InFlight(s)' = InFlight(s) \ {m.n}
      /\ \A t \in NodeServers \ {s} : InFlight(t)' = InFlight(t)
  BY <1>2, <1>3, <1>4, InFlightNumbers, InFlightNumbersNext
<1>8. PacketsInOnePlace'
  <2>1. ASSUME NEW t \in NodeServers
        PROVE  /\ EachOnce(toChat'[t]) /\ EachOnce(toGate'[t])
               /\ Numbers(toChat'[t]) \cap Numbers(toGate'[t]) = {}
    <3>1. CASE t = s
      BY <1>1, <1>2, <1>3, <1>4, <3>1 DEF PacketsInOnePlace
    <3>2. CASE t # s
      BY <1>1, <1>2, <3>2 DEF PacketsInOnePlace
    <3> QED BY <3>1, <3>2
  <2>2. \A t, u \in NodeServers : t # u => InFlight(t)' \cap InFlight(u)' = {}
    BY <1>1, <1>7 DEF PacketsInOnePlace
  <2> QED BY <2>1, <2>2 DEF PacketsInOnePlace
<1>9. ASSUME NEW k \in Asks
      PROVE  fate'[k] = "asked" <=> \E t \in NodeServers : k \in InFlight(t)'
  <2>1. CASE k = m.n
    <3>1. fate'[k] # "asked"
      BY <1>1, <1>6, <2>1
    <3>2. \A t \in NodeServers : k \notin InFlight(t)'
      BY <1>1, <1>5, <1>7, <2>1 DEF PacketsInOnePlace
    <3> QED BY <3>1, <3>2
  <2>2. CASE k # m.n
    <3>1. fate'[k] = fate[k]
      BY <1>1, <1>6, <2>2
    <3>2. \A t \in NodeServers : k \in InFlight(t)' <=> k \in InFlight(t)
      BY <1>7, <2>2
    <3> QED BY <1>1, <3>1, <3>2
  <2> QED BY <2>1, <2>2
<1> QED BY <1>8, <1>9 DEF RouteInv, AskedIsOnItsWay

LEMMA RouteNextInv == RouteInv /\ InFlightWasSent /\ [ChatNext]_chatVars => RouteInv'
<1> SUFFICES ASSUME RouteInv, InFlightWasSent, [ChatNext]_chatVars PROVE RouteInv'
  OBVIOUS
<1>1. ChatInv' /\ InFlightWasSent'
  BY ChatNextInv, SentNext DEF RouteInv
<1>2. CASE UNCHANGED chatVars
  <2>1. UNCHANGED <<toChat, toGate, fate, fault>>
    BY <1>2 DEF chatVars, wireVars, gateVars, playerVars
  <2> QED BY <1>1, <2>1, RouteUntouched DEF RouteInv, PacketsInOnePlace, AskedIsOnItsWay, InFlight
<1>3. CASE ChatNext
  <2>1. ~fault
    BY <1>3 DEF ChatNext
  <2>2. ASSUME UNCHANGED <<toChat, toGate, fate>> PROVE RouteInv'
    BY <1>1, <2>1, <2>2, RouteUntouched
  <2>3. CASE PlayerServerStep
    BY <2>2, <2>3 DEF PlayerServerStep, wireVars
  <2>4. ASSUME NEW fd \in FDs, NEW o \in Objs, PlayerConnects(fd, o) PROVE RouteInv'
    BY <2>2, <2>4 DEF PlayerConnects, wireVars
  <2>5. ASSUME NEW s \in NodeServers, NEW fd \in NodeFDs, ServerConnects(s, fd) PROVE RouteInv'
    BY <2>2, <2>5 DEF ServerConnects, wireVars
  <2>6. ASSUME NEW s \in NodeServers, OnReportToServer(s) PROVE RouteInv'
    BY <2>2, <2>6 DEF OnReportToServer, wireVars
  <2>7. ASSUME NEW s \in NodeServers, ServerDisconnects(s) PROVE RouteInv'
    BY <1>1, <2>1, <2>7, RouteBreaks
  <2>8. ASSUME NEW o \in Objs, NEW n \in Asks, NEW id \in MsgIds, ClientAsks(o, n, id) PROVE RouteInv'
    BY <1>1, <2>1, <2>8, RouteAsks
  <2>9. ASSUME NEW s \in ChatServers, OnGateRouteChat(s) PROVE RouteInv'
    BY <1>1, <2>1, <2>9, RouteForth, RouteDrops, ChatRouteAssumption
  <2>10. ASSUME NEW s \in ChatServers, OnChatRouteBack(s) PROVE RouteInv'
    BY <1>1, <2>1, <2>10, RouteBack, ChatRouteAssumption
  <2> QED BY <1>3, <2>3, <2>4, <2>5, <2>6, <2>7, <2>8, <2>9, <2>10 DEF ChatNext
<1> QED BY <1>2, <1>3

(* The message of a client that waits for its answer is on the wire of one *)
(* server, once, in every reachable state up to a fault (SentPackToChat,   *)
(* OnGateRouteChat, OnChatRouteBack).                                      *)
THEOREM WaitingIsOnItsWay == ChatSpec => [](AskedIsOnItsWay /\ (~fault => PacketsInOnePlace))
<1>1. RouteInv => AskedIsOnItsWay /\ (~fault => PacketsInOnePlace)
  BY DEF RouteInv
<1> QED BY <1>1, RouteInitInv, RouteNextInv, ChatInitInv, ChatNextInv, SentInit, SentNext, PTL
        DEF ChatSpec

(* No client is answered twice, nor after its message was given up.        *)
THEOREM AnsweredAtMostOnce == ChatSpec => SettledForGood
<1> DEFINE Settled == \A n \in Asks : fate[n] \notin {"unsent", "asked"} => fate'[n] = fate[n]
<1>1. RouteInv /\ [ChatNext]_chatVars => [Settled]_chatVars
  <2> SUFFICES ASSUME RouteInv, ChatNext PROVE Settled
    BY Zenon
  <2>1. /\ ~fault
        /\ \A n \in Asks : fate[n] = "asked" <=> \E s \in NodeServers : n \in InFlight(s)
        /\ fate \in [Asks -> Ends \cup Objs]
    BY RouteFacts DEF ChatNext
  <2>2. CASE UNCHANGED fate
    BY <2>2
  <2>3. ASSUME NEW s \in NodeServers, ServerDisconnects(s) PROVE Settled
    BY <2>1, <2>3 DEF ServerDisconnects
  <2>4. ASSUME NEW o \in Objs, NEW n \in Asks, NEW id \in MsgIds, ClientAsks(o, n, id) PROVE Settled
    <3>1. fate[n] = "unsent" /\ \A k \in Asks : k # n => fate'[k] = fate[k]
      BY <2>1, <2>4 DEF ClientAsks, SentPackToChat
    <3> QED BY <3>1
  <2>5. ASSUME NEW s \in NodeServers, OnChatRouteBack(s) PROVE Settled
    <3>1. /\ fate[Head(toGate[s]).n] = "asked"
          /\ \A k \in Asks : k # Head(toGate[s]).n => fate'[k] = fate[k]
      BY <2>1, <2>5, BackTaken
    <3> QED BY <3>1
  <2>6. ASSUME NEW s \in NodeServers, OnGateRouteChat(s) PROVE Settled
    <3>1. /\ fate[Head(toChat[s]).n] = "asked"
          /\ \A k \in Asks : k # Head(toChat[s]).n => fate'[k] = fate[k]
      BY <2>1, <2>6, ForthTaken
    <3> QED BY <3>1
  <2> QED BY <2>2, <2>3, <2>4, <2>5, <2>6, ChatRouteAssumption
        DEF ChatNext, PlayerServerStep, PlayerConnects, ServerConnects,
            OnReportToServer, wireVars
<1> QED BY <1>1, RouteInitInv, RouteNextInv, ChatInitInv, ChatNextInv, SentInit, SentNext, PTL
        DEF ChatSpec, SettledForGood
-----------------------------------------------------------------------------
(* The gate on top of the net: what is called back does nothing to the net *)
(* that the net does not do itself, so the net's theorems hold here too.   *)
LEMMA GateStepsAreNetSteps == [GateNext]_gateVars => [NetNext]_netVars
BY DEF GateNext, gateVars, NetNext, LoopStarts, LoopReturns, ClientConnects, ClientRefused,
       ClientEvent, KickPlayer, KickPlayerAllPlayer, ClientHangsUp

LEMMA ChatStepsAreNetSteps == [ChatNext]_chatVars => [NetNext]_netVars
<1> SUFFICES ASSUME [ChatNext]_chatVars PROVE NetNext \/ UNCHANGED netVars
  OBVIOUS
<1>1. CASE UNCHANGED gateVars
  BY <1>1 DEF gateVars
<1>2. CASE PlayerServerStep
  BY <1>2 DEF PlayerServerStep, NetNext, LoopStarts, LoopReturns, ClientRefused, ClientEvent, ClientHangsUp
<1>3. ASSUME NEW fd \in FDs, NEW o \in Objs, PlayerConnects(fd, o) PROVE NetNext
  BY <1>3 DEF PlayerConnects, ClientConnects, NetNext
<1>4. CASE UNCHANGED netVars
  BY <1>4
<1> QED BY <1>1, <1>2, <1>3, <1>4 DEF ChatNext, chatVars, ServerConnects, OnReportToServer,
          ServerDisconnects, ClientAsks, OnGateRouteChat, OnChatRouteBack

(* The player server and the chat route keep the promises of the NFNet     *)
(* they sit on, for all clients, descriptors, players and servers.         *)
THEOREM GateRunsTheNet == (GateSpec => NetSpec) /\ (ChatSpec => NetSpec)
<1>1. GateInit => NetInit
  BY DEF GateInit
<1>2. ChatInit => NetInit
  BY <1>1 DEF ChatInit
<1> QED BY <1>1, <1>2, GateStepsAreNetSteps, ChatStepsAreNetSteps, PTL
        DEF GateSpec, ChatSpec, NetSpec
=============================================================================

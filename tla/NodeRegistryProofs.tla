-------------------------- MODULE NodeRegistryProofs --------------------------
(***************************************************************************)
(* Proofs about the master's register, for every set of server ids, of     *)
(* descriptors and of connections.                                         *)
(***************************************************************************)
EXTENDS NodeRegistry, NFNetProofs

(* Entries lead to connections that have not ended, and a connection that  *)
(* was accepted has a server at its other end.                             *)
EntriesUnmarked == \A id \in Registered : m_mClientNodes[id].pData \notin needRemove

BornHaveServer == \A o \in Objs : objState[o] # "new" => server[o] \in ServerIds

RegInv ==
    /\ NetInv /\ RegTypeOK
    /\ RegistryLeadsToReporter /\ RegisteredKnowEachOther
    /\ EntriesUnmarked /\ BornHaveServer

-----------------------------------------------------------------------------
(* The initial register is empty. *)
LEMMA RegInitInv == RegInit => RegInv
<1> SUFFICES ASSUME RegInit PROVE RegInv
  OBVIOUS
<1>1. NetInv /\ NetTypeOK
  BY NetInitInv DEF RegInit, NetInv
<1>2. Registered = {} /\ \A o \in Objs : DOMAIN lastList[o] = {}
  BY DEF RegInit, Registered
<1>3. RegTypeOK
  BY <1>1, <1>2 DEF RegTypeOK, RegInit
<1>4. BornHaveServer
  BY DEF BornHaveServer, RegInit, NetInit
<1> QED
  BY <1>1, <1>2, <1>3, <1>4 DEF RegInv, RegistryLeadsToReporter, RegisteredKnowEachOther, EntriesUnmarked

(* A step of the net that leaves the register alone and keeps its entries' *)
(* connections in the table.                                               *)
LEMMA RegNetStepInv ==
    ASSUME RegInv, NetInv', UNCHANGED registryVars,
           \A id \in Registered :
               LET fd == m_mClientNodes[id].nFD IN
               /\ fd \in DOMAIN mmObject' /\ mmObject'[fd] = mmObject[fd]
               /\ m_mClientNodes[id].pData \notin needRemove',
           \A o \in Objs : objState[o] = "new" => objState'[o] = "new"
    PROVE  RegInv'
<1>1. RegTypeOK'
  BY DEF RegInv, RegTypeOK, NetInv, registryVars, Registered
<1>2. RegistryLeadsToReporter' /\ EntriesUnmarked'
  BY DEF RegInv, RegistryLeadsToReporter, EntriesUnmarked, registryVars, Registered
<1>3. RegisteredKnowEachOther' /\ BornHaveServer'
  BY DEF RegInv, RegisteredKnowEachOther, BornHaveServer, registryVars, Registered
<1> QED BY <1>1, <1>2, <1>3 DEF RegInv

(* A connection is accepted under a descriptor that no entry uses. *)
LEMMA NodeConnectsInv ==
    ASSUME RegInv, NetInv', NEW fd \in FDs, NEW o \in Objs, NodeConnects(fd, o)
    PROVE  RegInv'
<1> PICK s \in ServerIds : server' = [server EXCEPT ![o] = s]
  BY DEF NodeConnects
<1>1. /\ m_mClientNodes' = m_mClientNodes /\ reported' = reported
      /\ lastList' = lastList /\ fault' = fault
      /\ objState' = [objState EXCEPT ![o] = "live"] /\ objState[o] = "new"
      /\ needRemove' = needRemove /\ fd \notin DOMAIN mmObject
      /\ mmObject' = [f \in DOMAIN mmObject \cup {fd} |-> IF f = fd THEN o ELSE mmObject[f]]
  BY DEF NodeConnects, ListenerCb, NewNetObject, Accepts
<1>2. \A id \in Registered :
        /\ m_mClientNodes[id].pData # o /\ m_mClientNodes[id].pData \in Objs
        /\ m_mClientNodes[id].nFD \in DOMAIN mmObject
        /\ mmObject'[m_mClientNodes[id].nFD] = mmObject[m_mClientNodes[id].nFD]
  BY <1>1 DEF RegInv, RegistryLeadsToReporter, RegTypeOK, NetInv, TableMatchesHeap
<1>3. RegTypeOK'
  BY <1>1 DEF RegInv, RegTypeOK, NetInv, Registered
<1>4. RegistryLeadsToReporter' /\ EntriesUnmarked'
  BY <1>1, <1>2 DEF RegInv, RegistryLeadsToReporter, EntriesUnmarked, Registered, RegTypeOK
<1>5. RegisteredKnowEachOther'
  BY <1>1 DEF RegInv, RegisteredKnowEachOther, Registered
<1>6. BornHaveServer'
  BY <1>1 DEF RegInv, BornHaveServer, NetInv, NetTypeOK, RegTypeOK
<1> QED BY <1>3, <1>4, <1>5, <1>6 DEF RegInv

(* A report is registered and broadcast. *)
LEMMA NodeReportsInv ==
    ASSUME RegInv, NEW o \in Objs, NodeReports(o)
    PROVE  RegInv'
<1> DEFINE s == server[o]
<1>1. /\ objState[o] = "live" /\ o \notin needRemove
      /\ reported' = reported \cup {o} /\ server' = server /\ fault' = fault
      /\ UNCHANGED netVars
      /\ m_mClientNodes' = [i \in Registered \cup {s} |->
             IF i = s THEN [nFD |-> objFd[o], pData |-> o] ELSE m_mClientNodes[i]]
  BY DEF NodeReports, AddReport, Live
<1>2. NetInv'
  BY <1>1, NetNextInv DEF RegInv
<1>3. s \in ServerIds /\ objFd[o] \in DOMAIN mmObject /\ mmObject[objFd[o]] = o /\ objFd[o] \in FDs
  BY <1>1 DEF RegInv, BornHaveServer, NetInv, TableMatchesHeap, NetTypeOK, Live
<1> HIDE DEF s
<1>4. /\ Registered' = Registered \cup {s}
      /\ m_mClientNodes'[s] = [nFD |-> objFd[o], pData |-> o]
      /\ \A id \in Registered \ {s} : m_mClientNodes'[id] = m_mClientNodes[id]
  BY <1>1 DEF Registered
<1>5. \A id \in Registered' :
        /\ m_mClientNodes'[id] \in [nFD : FDs, pData : Objs] /\ id \in ServerIds
        /\ m_mClientNodes'[id].nFD \in DOMAIN mmObject
        /\ mmObject[m_mClientNodes'[id].nFD] = m_mClientNodes'[id].pData
        /\ server[m_mClientNodes'[id].pData] = id
        /\ m_mClientNodes'[id].pData \notin needRemove
  BY <1>1, <1>3, <1>4 DEF RegInv, RegTypeOK, RegistryLeadsToReporter, EntriesUnmarked, s
<1>6. RegistryLeadsToReporter' /\ EntriesUnmarked' /\ BornHaveServer'
  <2>1. mmObject' = mmObject /\ needRemove' = needRemove /\ objState' = objState
    BY <1>1 DEF netVars
  <2>2. RegistryLeadsToReporter'
    BY <1>1, <1>5, <2>1 DEF RegistryLeadsToReporter
  <2>3. EntriesUnmarked'
    BY <1>5, <2>1 DEF EntriesUnmarked
  <2>4. BornHaveServer'
    BY <1>1, <2>1 DEF RegInv, BornHaveServer
  <2> QED BY <2>2, <2>3, <2>4
<1>7. /\ DOMAIN lastList' = Objs
      /\ \A c \in Objs : lastList'[c] =
           IF \E fd \in {m_mClientNodes'[id].nFD : id \in DOMAIN m_mClientNodes'} \cap DOMAIN mmObject :
                 mmObject[fd] = c
           THEN [id \in DOMAIN m_mClientNodes' |-> m_mClientNodes'[id].pData] ELSE lastList[c]
  BY DEF NodeReports, SyncNodeDataToAll, Reports
<1>8. RegisteredKnowEachOther'
  <2> SUFFICES ASSUME NEW id \in Registered', NEW other \in Registered'
               PROVE  LET list == lastList'[m_mClientNodes'[id].pData] IN
                      other \in DOMAIN list /\ list[other] = m_mClientNodes'[other].pData
    BY DEF RegisteredKnowEachOther
  <2>1. m_mClientNodes'[id].pData \in Objs
    BY <1>5
  <2>2. lastList'[m_mClientNodes'[id].pData]
          = [i \in DOMAIN m_mClientNodes' |-> m_mClientNodes'[i].pData]
    BY <1>5, <1>7, <2>1 DEF Registered
  <2> QED BY <2>2 DEF Registered
<1>9. RegTypeOK'
  <2>1. \A c \in Objs : /\ DOMAIN lastList'[c] \subseteq ServerIds
                        /\ \A id \in DOMAIN lastList'[c] : lastList'[c][id] \in Objs
    <3> SUFFICES ASSUME NEW c \in Objs
                 PROVE  /\ DOMAIN lastList'[c] \subseteq ServerIds
                        /\ \A id \in DOMAIN lastList'[c] : lastList'[c][id] \in Objs
      OBVIOUS
    <3>1. CASE lastList'[c] = lastList[c]
      BY <3>1 DEF RegInv, RegTypeOK
    <3>2. CASE lastList'[c] = [id \in DOMAIN m_mClientNodes' |-> m_mClientNodes'[id].pData]
      BY <3>2, <1>5 DEF Registered
    <3> QED BY <3>1, <3>2, <1>7
  <2>2. NetTypeOK'
    BY <1>2 DEF NetInv
  <2> QED BY <1>1, <1>5, <1>7, <2>1, <2>2 DEF RegInv, RegTypeOK
<1> QED BY <1>2, <1>6, <1>8, <1>9 DEF RegInv

(* The end of a connection: the entry of its descriptor is the only one    *)
(* that leads to it.                                                       *)
LEMMA NodeEventInv ==
    ASSUME RegInv, NetInv', NEW o \in Objs, NEW ev \in Events, NodeEvent(o, ev)
    PROVE  /\ RegInv'
           /\ \A id \in Registered : id \notin Registered' =>
                  m_mClientNodes[id].pData \in needRemove' \ needRemove
           /\ \A id \in Registered' : id \in Registered /\ m_mClientNodes'[id] = m_mClientNodes[id]
<1> DEFINE fd == objFd[o]
<1>1. /\ fd \in FDs /\ fd \in DOMAIN mmObject /\ mmObject[fd] = o
  BY DEF NodeEvent, ConnEventCb, RegInv, NetInv, TableMatchesHeap, Live, NetTypeOK
<1>2. /\ mmObject' = mmObject /\ objState' = objState /\ objFd' = objFd
      /\ needRemove' = needRemove \cup {o}
      /\ server' = server /\ reported' = reported /\ lastList' = lastList
  BY <1>1 DEF NodeEvent, ConnEventCb, CloseNetObject
<1>3. \A id \in EntriesOf(fd) :
        id \in Registered /\ m_mClientNodes[id].pData = o /\ id = server[o]
  BY <1>1 DEF EntriesOf, RegInv, RegistryLeadsToReporter
<1>4. /\ Registered' = Registered \ EntriesOf(fd)
      /\ \A id \in Registered' : m_mClientNodes'[id] = m_mClientNodes[id]
      /\ fault' \in BOOLEAN
  <2>1. CASE EntriesOf(fd) = {}
    BY <2>1 DEF NodeEvent, OnClientDisconnect, Registered, RegInv, RegTypeOK
  <2>2. CASE EntriesOf(fd) # {}
    <3>a. EntriesOf(fd) = {server[o]} /\ server[o] \in Registered
      BY <1>3, <2>2
    <3>b. server[o] \in Nat
      BY <3>a, RegistryAssumption DEF RegInv, RegTypeOK
    <3>1. EntriesOf(fd) = {server[o]} /\ server[o] \in Nat
      BY <3>a, <3>b
    <3>2. First(EntriesOf(fd)) = server[o]
      BY <3>1 DEF First
    <3>3. RemovedBy(fd) = EntriesOf(fd)
      BY <3>1, <3>2 DEF RemovedBy
    <3>4. /\ m_mClientNodes' = [id \in Registered \ EntriesOf(fd) |-> m_mClientNodes[id]]
          /\ fault' = fault
      BY <2>2, <3>3 DEF NodeEvent, OnClientDisconnect
    <3>5. /\ DOMAIN m_mClientNodes' = Registered \ EntriesOf(fd)
          /\ \A id \in Registered \ EntriesOf(fd) : m_mClientNodes'[id] = m_mClientNodes[id]
      BY <3>4
    <3>6. fault' \in BOOLEAN
      BY <3>4 DEF RegInv, RegTypeOK
    <3> QED BY <3>5, <3>6 DEF Registered
  <2> QED BY <2>1, <2>2
<1>5. \A id \in Registered' : m_mClientNodes[id].pData # o
  BY <1>1, <1>4 DEF EntriesOf, RegInv, RegistryLeadsToReporter, RegTypeOK, NetInv, TableMatchesHeap
<1>6. RegTypeOK'
  BY <1>2, <1>4 DEF RegInv, RegTypeOK, NetInv
<1>7. RegistryLeadsToReporter' /\ EntriesUnmarked'
  BY <1>2, <1>4, <1>5 DEF RegInv, RegistryLeadsToReporter, EntriesUnmarked
<1>8. RegisteredKnowEachOther' /\ BornHaveServer'
  BY <1>2, <1>4 DEF RegInv, RegisteredKnowEachOther, BornHaveServer
<1>9. \A id \in EntriesOf(fd) : m_mClientNodes[id].pData \in needRemove' \ needRemove
  BY <1>2, <1>3 DEF RegInv, EntriesUnmarked
<1> QED BY <1>4, <1>6, <1>7, <1>8, <1>9 DEF RegInv

(* Every step of the register is a step of the net or leaves it alone. *)
LEMMA RegNextInv == RegInv /\ [RegNext]_regVars => RegInv'
<1> SUFFICES ASSUME RegInv, [RegNext]_regVars PROVE RegInv'
  OBVIOUS
<1> USE DEF RegInv
<1>1. CASE LoopStarts
  <2>1. NetInv'
    BY <1>1, NetNextInv DEF LoopStarts, NetNext
  <2>2. \A id \in Registered : m_mClientNodes[id].nFD \notin mvRemoveObject
    BY DEF RegistryLeadsToReporter, EntriesUnmarked, NetInv, RemovalsMatchMarks
  <2>3. /\ mmObject' = [fd \in DOMAIN mmObject \ mvRemoveObject |-> mmObject[fd]]
        /\ needRemove' = needRemove /\ UNCHANGED registryVars
        /\ objState' = [o \in Objs |->
               IF o \in {mmObject[fd] : fd \in mvRemoveObject \cap DOMAIN mmObject}
               THEN "freed" ELSE objState[o]]
    BY <1>1 DEF LoopStarts, Execute, ExecuteClose, CloseObject
  <2>4. \A id \in Registered :
          LET fd == m_mClientNodes[id].nFD IN
          /\ fd \in DOMAIN mmObject' /\ mmObject'[fd] = mmObject[fd]
          /\ m_mClientNodes[id].pData \notin needRemove'
    BY <2>2, <2>3 DEF RegistryLeadsToReporter, EntriesUnmarked
  <2>5. \A o \in Objs : objState[o] = "new" => objState'[o] = "new"
    BY <2>3 DEF NetInv, NetTypeOK, TableMatchesHeap
  <2>6. UNCHANGED registryVars
    BY <2>3
  <2> HIDE DEF RegInv
  <2> QED BY <2>1, <2>4, <2>5, <2>6, RegNetStepInv
<1>2. CASE LoopReturns
  <2>1. NetInv'
    BY <1>2, NetNextInv DEF LoopReturns, NetNext
  <2> QED BY <1>2, <2>1, RegNetStepInv
        DEF LoopReturns, ExecuteReturns, RegistryLeadsToReporter, EntriesUnmarked
<1>3. ASSUME NEW fd \in FDs, NEW o \in Objs, NodeConnects(fd, o) PROVE RegInv'
  <2>1. NetInv'
    BY <1>3, NetNextInv DEF NodeConnects, NetNext
  <2> QED BY <1>3, <2>1, NodeConnectsInv
<1>4. ASSUME NEW fd \in FDs, NodeRefused(fd) PROVE RegInv'
  <2>1. NetInv'
    BY <1>4, NetNextInv DEF NodeRefused, NetNext
  <2>2. fd \notin DOMAIN mmObject
    BY <1>4 DEF NodeRefused, ListenerCbReturns, NetInv, TableMatchesHeap
  <2> QED BY <1>4, <2>1, <2>2, RegNetStepInv
        DEF NodeRefused, ListenerCbReturns, CloseNetObject, RegistryLeadsToReporter, EntriesUnmarked
<1>5. ASSUME NEW o \in Objs, NodeReports(o) PROVE RegInv'
  BY <1>5, NodeReportsInv
<1>6. ASSUME NEW o \in Objs, NodeHangsUp(o) PROVE RegInv'
  <2>1. NetInv'
    BY <1>6, NetNextInv DEF NodeHangsUp, NetNext
  <2> QED BY <1>6, <2>1, RegNetStepInv
        DEF NodeHangsUp, PeerCloses, RegistryLeadsToReporter, EntriesUnmarked
<1>7. ASSUME NEW o \in Objs, NEW ev \in Events, NodeEvent(o, ev) PROVE RegInv'
  <2>1. NetInv'
    BY <1>7, NetNextInv DEF NodeEvent, NetNext
  <2> QED BY <1>7, <2>1, NodeEventInv
<1>8. CASE UNCHANGED regVars
  <2>1. NetInv'
    BY <1>8, NetNextInv DEF regVars
  <2> QED BY <1>8, <2>1, RegNetStepInv
        DEF regVars, netVars, registryVars, RegistryLeadsToReporter, EntriesUnmarked
<1> QED BY <1>1, <1>2, <1>3, <1>4, <1>5, <1>6, <1>7, <1>8 DEF RegNext

-----------------------------------------------------------------------------
(* A message sent to a registered server reaches that server, in every     *)
(* reachable state.                                                        *)
THEOREM RegistryIsSound == RegSpec => [](RegTypeOK /\ RegistryLeadsToReporter)
<1>1. RegInv => RegTypeOK /\ RegistryLeadsToReporter
  BY DEF RegInv
<1> QED BY <1>1, RegInitInv, RegNextInv, PTL DEF RegSpec

(* Registered servers know each other's latest report, in every reachable  *)
(* state.                                                                  *)
THEOREM EverybodyIsTold == RegSpec => []RegisteredKnowEachOther
<1>1. RegInv => RegisteredKnowEachOther
  BY DEF RegInv
<1> QED BY <1>1, RegInitInv, RegNextInv, PTL DEF RegSpec

(* An entry changes only by a newer report or by the end of its own        *)
(* connection, and no report is ignored.                                   *)
THEOREM EntriesAreKept == RegSpec => EntryChangesForAReason
<1> DEFINE Kept ==
      /\ \A id \in Registered :
           \/ id \in Registered' /\ m_mClientNodes'[id] = m_mClientNodes[id]
           \/ id \in Registered' /\ m_mClientNodes'[id].pData \in reported' \ reported
           \/ id \notin Registered' /\ m_mClientNodes[id].pData \in needRemove' \ needRemove
      /\ \A o \in reported' \ reported :
           server[o] \in Registered' /\ m_mClientNodes'[server[o]].pData = o
<1>1. RegInv /\ [RegNext]_regVars => [Kept]_regVars
  <2> SUFFICES ASSUME RegInv, RegNext PROVE Kept
    BY Zenon
  <2>1. ASSUME NEW o \in Objs, NodeReports(o) PROVE Kept
    BY <2>1 DEF NodeReports, AddReport, Registered
  <2>2. ASSUME NEW o \in Objs, NEW ev \in Events, NodeEvent(o, ev) PROVE Kept
    <3>1. NetInv'
      BY <2>2, NetNextInv DEF NodeEvent, NetNext, RegInv
    <3> QED BY <2>2, <3>1, NodeEventInv DEF NodeEvent
  <2>3. CASE UNCHANGED <<m_mClientNodes, reported>>
    BY <2>3 DEF Registered
  <2> QED BY <2>1, <2>2, <2>3 DEF RegNext, LoopStarts, LoopReturns, NodeConnects, NodeRefused,
                NodeHangsUp, registryVars
<1> QED BY <1>1, RegInitInv, RegNextInv, PTL DEF RegSpec, EntryChangesForAReason

-----------------------------------------------------------------------------
(* The refinement of Membership.                                           *)

LEMMA MembersAreRegistered ==
    /\ DOMAIN Reports(m_mClientNodes) = Registered
    /\ \A id \in Registered : Reports(m_mClientNodes)[id] = m_mClientNodes[id].pData
BY DEF Reports, Registered

(* The empty register is the empty group. *)
LEMMA RegInitIsGroupInit == RegInit => Group!Init
<1> SUFFICES ASSUME RegInit PROVE Group!Init
  OBVIOUS
<1>1. Reports(m_mClientNodes) = [i \in {} |-> 0]
  BY DEF RegInit, Reports
<1> QED BY <1>1 DEF RegInit, NetInit, Group!Init

(* A report is a join: the sockets of the entries lead to the sessions of  *)
(* the members.                                                            *)
LEMMA ReportIsJoin ==
    ASSUME RegInv, NEW o \in Objs, NodeReports(o)
    PROVE  server[o] \in ServerIds /\ Group!Join(server[o], o)
<1> DEFINE s == server[o]
           M == Reports(m_mClientNodes)
<1>1. RegInv'
  BY NodeReportsInv
<1>2. /\ objState[o] = "live" /\ o \notin needRemove /\ o \notin reported
      /\ reported' = reported \cup {o} /\ needRemove' = needRemove /\ mmObject' = mmObject
      /\ m_mClientNodes' = [i \in Registered \cup {s} |->
             IF i = s THEN [nFD |-> objFd[o], pData |-> o] ELSE m_mClientNodes[i]]
      /\ lastList' = [c \in Objs |->
             IF \E fd \in {m_mClientNodes'[id].nFD : id \in DOMAIN m_mClientNodes'} \cap DOMAIN mmObject :
                   mmObject[fd] = c
             THEN Reports(m_mClientNodes') ELSE lastList[c]]
  BY DEF NodeReports, AddReport, Live, netVars, SyncNodeDataToAll
<1>3. s \in ServerIds
  BY <1>2 DEF RegInv, BornHaveServer
<1>4. M' = [i \in DOMAIN M \cup {s} |-> IF i = s THEN o ELSE M[i]]
  BY <1>2 DEF Reports, Registered
<1>5. /\ DOMAIN M' = DOMAIN m_mClientNodes'
      /\ \A id \in DOMAIN M' : M'[id] = m_mClientNodes'[id].pData
  BY DEF Reports
<1>6. \A id \in DOMAIN m_mClientNodes' :
        /\ m_mClientNodes'[id].nFD \in DOMAIN mmObject
        /\ mmObject[m_mClientNodes'[id].nFD] = m_mClientNodes'[id].pData
  BY <1>1, <1>2 DEF RegInv, RegistryLeadsToReporter, Registered
<1>7. ASSUME NEW c \in Objs
      PROVE  (\E fd \in {m_mClientNodes'[id].nFD : id \in DOMAIN m_mClientNodes'} \cap DOMAIN mmObject :
                 mmObject[fd] = c)
             <=> (\E i \in DOMAIN M' : M'[i] = c)
  BY <1>5, <1>6
<1>8. lastList' = [c \in Objs |->
          IF \E i \in DOMAIN M' : M'[i] = c THEN M' ELSE lastList[c]]
  BY <1>2, <1>7
<1> HIDE DEF M
<1>9. /\ o \notin reported \cup needRemove
      /\ needRemove' = needRemove
  BY <1>2
<1>10. Group!Join(s, o)
  BY <1>2, <1>4, <1>8, <1>9 DEF Group!Join, M
<1> QED BY <1>3, <1>10

(* The first event of a connection ends its session; any later one finds   *)
(* no entry.                                                               *)
LEMMA EventEndsSession ==
    ASSUME RegInv, NetInv', NEW o \in Objs, NEW ev \in Events, NodeEvent(o, ev)
    PROVE  Group!End(o) \/ UNCHANGED Group!vars
<1> DEFINE M == Reports(m_mClientNodes)
<1>1. /\ needRemove' = needRemove \cup {o}
      /\ reported' = reported /\ lastList' = lastList
      /\ objFd[o] \in FDs /\ objFd[o] \in DOMAIN mmObject /\ mmObject[objFd[o]] = o
  BY DEF NodeEvent, ConnEventCb, CloseNetObject, RegInv, NetInv, TableMatchesHeap, Live, NetTypeOK
<1>2. /\ \A id \in Registered : id \notin Registered' => m_mClientNodes[id].pData \in needRemove' \ needRemove
      /\ \A id \in Registered' : id \in Registered /\ m_mClientNodes'[id] = m_mClientNodes[id]
      /\ RegInv'
  BY NodeEventInv
<1>3. \A id \in Registered : id \in Registered' <=> m_mClientNodes[id].pData # o
  BY <1>1, <1>2 DEF RegInv, EntriesUnmarked
<1>4. M' = [i \in {j \in DOMAIN M : M[j] # o} |-> M[i]]
  <2>1. DOMAIN M = Registered /\ \A i \in Registered : M[i] = m_mClientNodes[i].pData
    BY MembersAreRegistered
  <2>2. M' = [id \in Registered' |-> m_mClientNodes'[id].pData]
    BY DEF Reports, Registered
  <2>3. Registered' = {j \in DOMAIN M : M[j] # o}
    BY <1>2, <1>3, <2>1
  <2> HIDE DEF M
  <2> QED BY <1>2, <2>1, <2>2, <2>3
<1>5. CASE o \notin needRemove
  BY <1>1, <1>4, <1>5 DEF Group!End
<1>6. CASE o \in needRemove
  <2>1. {j \in DOMAIN M : M[j] # o} = DOMAIN M
    BY <1>6, MembersAreRegistered DEF RegInv, EntriesUnmarked
  <2>2. M = [i \in DOMAIN M |-> M[i]]
    BY DEF Reports
  <2>3. M' = M
    BY <1>4, <2>1, <2>2
  <2>4. needRemove' = needRemove
    BY <1>1, <1>6
  <2> QED BY <1>1, <2>3, <2>4 DEF Group!vars
<1> QED BY <1>5, <1>6

(* Every step of the register is a step of the group or does not show.     *)
LEMMA RegNextIsGroupNext == RegInv /\ [RegNext]_regVars => [Group!Next]_Group!vars
<1> SUFFICES ASSUME RegInv, RegNext \/ UNCHANGED regVars
             PROVE  Group!Next \/ UNCHANGED Group!vars
  OBVIOUS
<1>1. CASE UNCHANGED <<m_mClientNodes, reported, needRemove, lastList>>
  BY <1>1 DEF Group!vars, Reports
<1>2. CASE UNCHANGED regVars
  BY <1>1, <1>2 DEF regVars, registryVars, netVars
<1>3. ASSUME NEW o \in Objs, NodeReports(o) PROVE Group!Next
  BY <1>3, ReportIsJoin DEF Group!Next
<1>4. ASSUME NEW o \in Objs, NEW ev \in Events, NodeEvent(o, ev)
      PROVE  Group!Next \/ UNCHANGED Group!vars
  <2>1. NetInv'
    BY <1>4, NetNextInv DEF NodeEvent, NetNext, RegInv
  <2> QED BY <1>4, <2>1, EventEndsSession DEF Group!Next
<1>5. CASE LoopStarts \/ LoopReturns
  BY <1>1, <1>5 DEF LoopStarts, LoopReturns, Execute, ExecuteReturns, registryVars
<1>6. ASSUME NEW fd \in FDs, NEW o \in Objs, NodeConnects(fd, o)
      PROVE  UNCHANGED <<m_mClientNodes, reported, needRemove, lastList>>
  BY <1>6 DEF NodeConnects, ListenerCb
<1>7. ASSUME NEW fd \in FDs, NodeRefused(fd)
      PROVE  UNCHANGED <<m_mClientNodes, reported, needRemove, lastList>>
  <2>1. fd \notin DOMAIN mmObject
    BY <1>7 DEF NodeRefused, ListenerCbReturns, RegInv, NetInv, TableMatchesHeap
  <2> QED BY <1>7, <2>1 DEF NodeRefused, ListenerCbReturns, CloseNetObject, registryVars
<1>8. ASSUME NEW o \in Objs, NodeHangsUp(o)
      PROVE  UNCHANGED <<m_mClientNodes, reported, needRemove, lastList>>
  BY <1>8 DEF NodeHangsUp, PeerCloses, registryVars
<1> QED BY <1>1, <1>2, <1>3, <1>4, <1>5, <1>6, <1>7, <1>8 DEF RegNext

(* The master's register implements the group membership, for every set of *)
(* server ids, descriptors and connections.                                *)
THEOREM RegistryImplementsMembership == RegSpec => RegistryIsMembership
<1> QED
  BY RegInitInv, RegNextInv, RegInitIsGroupInit, RegNextIsGroupNext, PTL
     DEF RegSpec, RegistryIsMembership, Group!Spec

(* The types of the register and of the lists that were sent               *)
(* (NetServerBase.h).                                                      *)
THEOREM RegTypeCorrect == RegSpec => []RegTypeOK
BY RegistryIsSound, PTL

-----------------------------------------------------------------------------
(* What the register owes to a server that reports once, and what it takes *)
(* for OnClientDisconnect to find no server.                               *)

(* A server with one session that was reported and has not ended is in the *)
(* register, under that session.  The two events that take an entry out    *)
(* cannot hit it: a newer report (OnReportToServer) comes over another     *)
(* session of the same server, and OnClientDisconnect removes the entry of *)
(* the descriptor that ended.                                              *)
SoleSessionIsEntered ==
    \A o \in reported \ needRemove :
        (\A p \in reported : server[p] = server[o] => p = o)
            => server[o] \in Registered /\ m_mClientNodes[server[o]].pData = o

(* OnClientDisconnect finds no server only for a connection that never     *)
(* reported, that has been closed before, or whose server reported over    *)
(* another connection as well.                                             *)
FaultHasACause ==
    [][ ~fault /\ fault' =>
          \E o \in Live : /\ armed'[o] # armed[o]
                          /\ \/ o \notin reported \/ o \in needRemove
                             \/ \E p \in reported \ {o} : server[p] = server[o] ]_regVars

ReportedAreBorn == \A o \in reported : o \in Objs /\ objState[o] # "new"

SoleInv == RegInv /\ ReportedAreBorn /\ SoleSessionIsEntered

(* A step that registers nobody and takes nobody's entry but an ended      *)
(* one's.                                                                  *)
LEMMA SoleKept ==
    ASSUME SoleInv, RegInv', reported' = reported, needRemove \subseteq needRemove',
           \A o \in reported : server'[o] = server[o] /\ objState'[o] # "new",
           \A id \in Registered :
               \/ id \in Registered' /\ m_mClientNodes'[id] = m_mClientNodes[id]
               \/ m_mClientNodes[id].pData \in needRemove'
    PROVE  SoleInv'
<1>1. ReportedAreBorn'
  BY DEF SoleInv, ReportedAreBorn
<1>2. SoleSessionIsEntered'
  <2> SUFFICES ASSUME NEW o \in reported \ needRemove',
                      \A p \in reported : server[p] = server[o] => p = o
               PROVE  server[o] \in Registered' /\ m_mClientNodes'[server[o]].pData = o
    BY DEF SoleSessionIsEntered
  <2>1. server[o] \in Registered /\ m_mClientNodes[server[o]].pData = o
    BY DEF SoleInv, SoleSessionIsEntered
  <2> QED BY <2>1
<1> QED BY <1>1, <1>2 DEF SoleInv

(* A report enters its own session, and leaves the entries of the other    *)
(* servers alone.                                                          *)
LEMMA SoleReports ==
    ASSUME SoleInv, RegInv', NEW o \in Objs, NodeReports(o)
    PROVE  SoleInv'
<1> DEFINE s == server[o]
<1>1. /\ objState[o] = "live" /\ o \notin reported /\ reported' = reported \cup {o}
      /\ server' = server /\ needRemove' = needRemove /\ objState' = objState
      /\ m_mClientNodes' = [i \in Registered \cup {s} |->
             IF i = s THEN [nFD |-> objFd[o], pData |-> o] ELSE m_mClientNodes[i]]
  BY DEF NodeReports, AddReport, Live, netVars
<1>2. ReportedAreBorn'
  BY <1>1 DEF SoleInv, ReportedAreBorn
<1>3. SoleSessionIsEntered'
  <2> SUFFICES ASSUME NEW p \in reported' \ needRemove,
                      \A q \in reported' : server[q] = server[p] => q = p
               PROVE  server[p] \in Registered' /\ m_mClientNodes'[server[p]].pData = p
    BY <1>1 DEF SoleSessionIsEntered
  <2>1. CASE p = o
    BY <1>1, <2>1 DEF Registered
  <2>2. CASE p # o
    <3>1. server[p] # s /\ p \in reported
      BY <1>1, <2>2
    <3>2. server[p] \in Registered /\ m_mClientNodes[server[p]].pData = p
      BY <1>1, <3>1 DEF SoleInv, SoleSessionIsEntered
    <3> QED BY <1>1, <3>1, <3>2 DEF Registered
  <2> QED BY <2>1, <2>2
<1> QED BY <1>2, <1>3 DEF SoleInv

LEMMA SoleInitInv == RegInit => SoleInv
BY RegInitInv DEF SoleInv, RegInit, ReportedAreBorn, SoleSessionIsEntered

LEMMA SoleNextInv == SoleInv /\ [RegNext]_regVars => SoleInv'
<1> SUFFICES ASSUME SoleInv, [RegNext]_regVars PROVE SoleInv'
  OBVIOUS
<1>a. RegInv /\ RegInv'
  BY RegNextInv DEF SoleInv
<1>b. NetTypeOK /\ TableMatchesHeap
  BY <1>a DEF RegInv, NetInv
<1>1. CASE LoopStarts
  <2>1. /\ needRemove' = needRemove /\ UNCHANGED registryVars
        /\ \A o \in Objs : objState[o] # "new" => objState'[o] # "new"
    BY <1>1, <1>b DEF LoopStarts, Execute, ExecuteClose, CloseObject, NetTypeOK
  <2> QED BY <1>a, <2>1, SoleKept DEF SoleInv, ReportedAreBorn, registryVars, Registered
<1>2. CASE LoopReturns
  BY <1>a, <1>2, SoleKept
     DEF LoopReturns, ExecuteReturns, SoleInv, ReportedAreBorn, registryVars, Registered
<1>3. ASSUME NEW fd \in FDs, NEW o \in Objs, NodeConnects(fd, o) PROVE SoleInv'
  <2>1. /\ m_mClientNodes' = m_mClientNodes /\ reported' = reported
        /\ objState' = [objState EXCEPT ![o] = "live"] /\ objState[o] = "new"
        /\ needRemove' = needRemove
        /\ \A p \in Objs \ {o} : server'[p] = server[p]
    BY <1>3, <1>a DEF NodeConnects, ListenerCb, NewNetObject, RegInv, RegTypeOK
  <2>2. \A p \in reported : p # o /\ p \in Objs /\ objState'[p] # "new"
    BY <2>1, <1>b DEF SoleInv, ReportedAreBorn, NetTypeOK
  <2> QED BY <1>a, <2>1, <2>2, SoleKept DEF Registered
<1>4. ASSUME NEW fd \in FDs, NodeRefused(fd) PROVE SoleInv'
  <2>1. fd \notin DOMAIN mmObject
    BY <1>4, <1>b DEF NodeRefused, ListenerCbReturns, TableMatchesHeap
  <2> QED BY <1>a, <1>4, <2>1, SoleKept
        DEF NodeRefused, ListenerCbReturns, CloseNetObject, SoleInv, ReportedAreBorn,
            registryVars, Registered
<1>5. ASSUME NEW o \in Objs, NodeReports(o) PROVE SoleInv'
  BY <1>5, <1>a, SoleReports
<1>6. ASSUME NEW o \in Objs, NodeHangsUp(o) PROVE SoleInv'
  BY <1>a, <1>6, SoleKept
     DEF NodeHangsUp, PeerCloses, SoleInv, ReportedAreBorn, registryVars, Registered
<1>7. ASSUME NEW o \in Objs, NEW ev \in Events, NodeEvent(o, ev) PROVE SoleInv'
  <2>1. NetInv'
    BY <1>a DEF RegInv
  <2>2. /\ \A id \in Registered : id \notin Registered' =>
               m_mClientNodes[id].pData \in needRemove' \ needRemove
        /\ \A id \in Registered' : id \in Registered /\ m_mClientNodes'[id] = m_mClientNodes[id]
    BY <1>a, <1>7, <2>1, NodeEventInv
  <2>3. /\ server' = server /\ reported' = reported /\ objState' = objState
        /\ needRemove \subseteq needRemove'
    BY <1>7 DEF NodeEvent, ConnEventCb, CloseNetObject
  <2> QED BY <1>a, <2>2, <2>3, SoleKept DEF SoleInv, ReportedAreBorn
<1>8. CASE UNCHANGED regVars
  BY <1>a, <1>8, SoleKept
     DEF regVars, netVars, SoleInv, ReportedAreBorn, registryVars, Registered
<1> QED BY <1>1, <1>2, <1>3, <1>4, <1>5, <1>6, <1>7, <1>8 DEF RegNext

(* A server that reported once stays registered until the end of that      *)
(* connection, whatever the other servers do (OnReportToServer,            *)
(* OnClientDisconnect).                                                    *)
THEOREM ReportedStaysEntered == RegSpec => []SoleSessionIsEntered
<1>1. SoleInv => SoleSessionIsEntered
  BY DEF SoleInv
<1> QED BY <1>1, SoleInitInv, SoleNextInv, PTL DEF RegSpec

(* The null dereference in OnClientDisconnect has one of three causes and  *)
(* no other.                                                               *)
THEOREM FaultHasOneOfThreeCauses == RegSpec => FaultHasACause
<1> DEFINE Caused ==
      ~fault /\ fault' =>
          \E o \in Live : /\ armed'[o] # armed[o]
                          /\ \/ o \notin reported \/ o \in needRemove
                             \/ \E p \in reported \ {o} : server[p] = server[o]
<1>1. SoleInv /\ [RegNext]_regVars => [Caused]_regVars
  <2> SUFFICES ASSUME SoleInv, RegNext, ~fault, fault'
               PROVE  \E o \in Live : /\ armed'[o] # armed[o]
                                      /\ \/ o \notin reported \/ o \in needRemove
                                         \/ \E p \in reported \ {o} : server[p] = server[o]
    BY Zenon
  <2>1. PICK o \in Objs, ev \in Events : NodeEvent(o, ev)
    BY DEF RegNext, LoopStarts, LoopReturns, NodeConnects, NodeRefused, NodeReports,
           NodeHangsUp, registryVars
  <2>2. /\ o \in Live /\ EntriesOf(objFd[o]) = {}
        /\ armed[o] # {} /\ ev \cap Sides \subseteq armed[o]
        /\ armed' = [armed EXCEPT ![o] = IF ev \cap Sides = {} THEN {} ELSE @ \ ev]
    BY <2>1 DEF NodeEvent, ConnEventCb, OnClientDisconnect, Live
  <2>3. armed'[o] # armed[o]
    <3>1. o \in DOMAIN armed
      BY DEF SoleInv, RegInv, NetInv, NetTypeOK
    <3>2. armed'[o] = IF ev \cap Sides = {} THEN {} ELSE armed[o] \ ev
      BY <2>2, <3>1
    <3> QED BY <2>2, <3>2
  <2>4. ASSUME o \in reported, o \notin needRemove,
               \A p \in reported \ {o} : server[p] # server[o]
        PROVE  FALSE
    <3>1. server[o] \in Registered /\ m_mClientNodes[server[o]].pData = o
      BY <2>4 DEF SoleInv, SoleSessionIsEntered
    <3>2. m_mClientNodes[server[o]].nFD = objFd[o]
      BY <3>1 DEF SoleInv, RegInv, RegistryLeadsToReporter, NetInv, TableMatchesHeap
    <3> QED BY <2>2, <3>1, <3>2 DEF EntriesOf
  <2> QED BY <2>2, <2>3, <2>4
<1> QED BY <1>1, SoleInitInv, SoleNextInv, PTL DEF RegSpec, FaultHasACause
-----------------------------------------------------------------------------
(* The register on top of the net: what is called back does nothing to the *)
(* net that the net does not do itself, so its theorems hold here too.     *)
LEMMA RegStepsAreNetSteps == [RegNext]_regVars => [NetNext]_netVars
BY DEF RegNext, regVars, NetNext, LoopStarts, LoopReturns, NodeConnects, NodeRefused,
       NodeReports, NodeHangsUp, NodeEvent

(* NetServerBase keeps the promises of the NFNet it sits on, for all       *)
(* servers, descriptors and connections.                                   *)
THEOREM RegisterRunsTheNet == RegSpec => NetSpec
<1>1. RegInit => NetInit
  BY DEF RegInit
<1> QED BY <1>1, RegStepsAreNetSteps, PTL DEF RegSpec, NetSpec

(* Whoever is in the register can be heard to leave it: both events of its *)
(* connection are armed.                                                   *)
EntriesAreHeard ==
    \A id \in Registered : /\ m_mClientNodes[id].pData \in Live
                           /\ armed[m_mClientNodes[id].pData] = Sides

(* No entry outlives the last event of its connection (OnClientDisconnect, *)
(* conn_eventcb, listener_cb).                                             *)
THEOREM NoEntryIsDeaf == RegSpec => []EntriesAreHeard
<1>1. RegInv /\ EventsFindLive => EntriesAreHeard
  <2> SUFFICES ASSUME RegInv, EventsFindLive, NEW id \in Registered
               PROVE  /\ m_mClientNodes[id].pData \in Live
                      /\ armed[m_mClientNodes[id].pData] = Sides
    BY DEF EntriesAreHeard
  <2>1. m_mClientNodes[id].pData \in Live \ needRemove
    BY DEF RegInv, RegTypeOK, RegistryLeadsToReporter, EntriesUnmarked, NetInv, TableMatchesHeap, Live
  <2> QED BY <2>1 DEF EventsFindLive
<1> QED BY <1>1, RegInitInv, RegNextInv, RegisterRunsTheNet, NoDeafConnection, PTL DEF RegSpec
=============================================================================

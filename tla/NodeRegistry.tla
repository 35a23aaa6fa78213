----------------------------- MODULE NodeRegistry -----------------------------
(***************************************************************************)
(* The node side of the master: an NFNet (module NFNet) whose events and   *)
(* messages reach NetServerBase (src/Common/NFComm/NFNetPlugin/            *)
(* NetServerBase.cpp), which registers the servers that report themselves, *)
(* and MasterNodeServer (src/MasterServer/NodeNet/MasterNodeServer.cpp),   *)
(* which sends the whole register to every registered server after each    *)
(* report.  The login, game and chat servers inherit the same handlers but *)
(* for the broadcast.                                                      *)
(*                                                                         *)
(* The content of a report is named by the NetObject whose connection      *)
(* carried it: a server that restarts reports over a new connection, with  *)
(* whatever address it has then.                                           *)
(***************************************************************************)
EXTENDS NFNet

CONSTANTS
    ServerIds,      \* the NodeIds of the servers' configuration
    NoServer        \* no server yet at the other end of a connection

ASSUME RegistryAssumption ==
    /\ ServerIds \subseteq Nat \ {0}
    /\ NoServer \notin ServerIds

VARIABLES
    m_mClientNodes, \* server id -> [nFD, pData]
    server,         \* per connection, the server at the other end
    reported,       \* connections whose report has been handled
    lastList,       \* per connection, the last list sent: server id -> report
    fault           \* OnClientDisconnect dereferenced a null pServerData

registryVars == <<m_mClientNodes, server, reported, lastList, fault>>
regVars == <<netVars, registryVars>>

Registered == DOMAIN m_mClientNodes

RegInit ==
    /\ NetInit
    /\ m_mClientNodes = [id \in {} |-> 0]
    /\ server = [o \in Objs |-> NoServer]
    /\ reported = {}
    /\ lastList = [o \in Objs |-> [id \in {} |-> o]]
    /\ fault = FALSE

-----------------------------------------------------------------------------
(* OnReportToServer: RemoveElement, then AddElement, so that a server that *)
(* is registered already is registered anew.                               *)
AddReport_Keep(id, entry) ==    \* slip: no RemoveElement: AddElement keeps an old entry
    m_mClientNodes' = [i \in Registered \cup {id} |->
                          IF i \in Registered THEN m_mClientNodes[i] ELSE entry]

AddReport(id, entry) ==
    m_mClientNodes' = [i \in Registered \cup {id} |->
                          IF i = id THEN entry ELSE m_mClientNodes[i]]

(* SyncNodeDataToAll: one list, sent to the descriptor of every entry of   *)
(* the new register (read primed: it runs after AddElement).               *)
Reports(register) == [id \in DOMAIN register |-> register[id].pData]

SyncNodeDataToAll_NewOnly(o) == \* slip: only the server that reports gets the list
    lastList' = [lastList EXCEPT ![o] = Reports(m_mClientNodes')]

SyncNodeDataToAll(o) ==
    LET sockets == {m_mClientNodes'[id].nFD : id \in DOMAIN m_mClientNodes'}
    IN  lastList' = [c \in Objs |->
                        IF \E fd \in sockets \cap DOMAIN mmObject : mmObject[fd] = c
                        THEN Reports(m_mClientNodes') ELSE lastList[c]]

(* The entries OnClientDisconnect looks for, first to last in the order of *)
(* the ids; it removes the first.                                          *)
EntriesOf(fd) == {id \in Registered : m_mClientNodes[id].nFD = fd}

First(ids) == CHOOSE id \in ids : \A i \in ids : id <= i

RemovedBy_Visited(fd) ==        \* slip: nServerId is set before the test of nFD
    {First(Registered)}

RemovedBy_Nothing(fd) == {}     \* slip: RemoveElement is missing

RemovedBy(fd) == {First(EntriesOf(fd))}

(* With no entry for the socket, RemoveElement(0) finds nothing and the    *)
(* log line reads through a null pServerData.                              *)
OnClientDisconnect(fd) ==
    IF EntriesOf(fd) = {}
    THEN /\ fault' = TRUE
         /\ UNCHANGED m_mClientNodes
    ELSE /\ m_mClientNodes' = [id \in Registered \ RemovedBy(fd) |-> m_mClientNodes[id]]
         /\ UNCHANGED fault

-----------------------------------------------------------------------------
(* OnSocketNodeEvent at the other end sends the report once the connection *)
(* is up; until then nothing is known of it here.                          *)
NodeConnects(fd, o) ==
    /\ ListenerCb(fd, o)
    /\ \E id \in ServerIds : server' = [server EXCEPT ![o] = id]
    /\ UNCHANGED <<m_mClientNodes, reported, lastList, fault>>

NodeRefused(fd) == ListenerCbReturns(fd) /\ UNCHANGED registryVars

(* conn_readcb hands the report over, unless the object is marked.  What   *)
(* was sent before the peer hung up is still read.                         *)
NodeReports(o) ==
    /\ phase = "loop"
    /\ o \in Live \ (needRemove \cup reported)
    /\ "READING" \in armed[o]
    /\ reported' = reported \cup {o}
    /\ AddReport(server[o], [nFD |-> objFd[o], pData |-> o])
    /\ SyncNodeDataToAll(o)
    /\ UNCHANGED <<server, fault>>
    /\ UNCHANGED netVars

(* OnClientSocketEvent: whatever is not CONNECTED is a disconnect. *)
NodeEvent(o, ev) ==
    /\ ConnEventCb(o, ev)
    /\ OnClientDisconnect(objFd[o])
    /\ UNCHANGED <<server, reported, lastList>>

NodeHangsUp(o) == PeerCloses(o) /\ UNCHANGED registryVars
LoopStarts     == Execute /\ UNCHANGED registryVars
LoopReturns    == ExecuteReturns /\ UNCHANGED registryVars

RegNext ==
    /\ ~fault
    /\ \/ LoopStarts
       \/ LoopReturns
       \/ \E fd \in FDs, o \in Objs : NodeConnects(fd, o)
       \/ \E fd \in FDs : NodeRefused(fd)
       \/ \E o \in Objs : NodeReports(o) \/ NodeHangsUp(o)
       \/ \E o \in Objs, ev \in Events : NodeEvent(o, ev)

RegSpec == RegInit /\ [][RegNext]_regVars

(* The scheduling of NFNet. *)
RegFairness ==
    /\ WF_regVars(~fault /\ LoopStarts)
    /\ WF_regVars(~fault /\ LoopReturns)
    /\ \A o \in Objs : SF_regVars(~fault /\ \E ev \in Events : NodeEvent(o, ev))

RegFairSpec == RegSpec /\ RegFairness

-----------------------------------------------------------------------------
(* Types. *)
RegTypeOK ==
    /\ NetTypeOK
    /\ Registered \subseteq ServerIds
    /\ \A id \in Registered : m_mClientNodes[id] \in [nFD : FDs, pData : Objs]
    /\ server \in [Objs -> ServerIds \cup {NoServer}]
    /\ reported \subseteq Objs
    /\ DOMAIN lastList = Objs
    /\ \A o \in Objs : /\ DOMAIN lastList[o] \subseteq ServerIds
                       /\ \A id \in DOMAIN lastList[o] : lastList[o][id] \in Objs
    /\ fault \in BOOLEAN

(* A message sent to a registered server reaches that server: the socket   *)
(* of the entry is in the connection table, and leads to the connection    *)
(* over which the server of that id reported itself; the register keeps    *)
(* its descriptors in step with a table that reuses them.                  *)
RegistryLeadsToReporter ==
    \A id \in Registered :
        LET entry == m_mClientNodes[id] IN
        /\ entry.nFD \in DOMAIN mmObject
        /\ mmObject[entry.nFD] = entry.pData
        /\ server[entry.pData] = id

(* Every registered server has been told of every registered server, with  *)
(* its latest report: the broadcast goes to those registered before as     *)
(* well as to the one that reports.                                        *)
RegisteredKnowEachOther ==
    \A id, other \in Registered :
        LET list == lastList[m_mClientNodes[id].pData] IN
        other \in DOMAIN list /\ list[other] = m_mClientNodes[other].pData

(* An entry goes only by a newer report of its server or by the end of the *)
(* very connection it was reported over, never by the end of another one;  *)
(* and a newer report is never ignored in favour of an older entry.        *)
EntryChangesForAReason ==
    [][ /\ \A id \in Registered :
             \/ id \in Registered' /\ m_mClientNodes'[id] = m_mClientNodes[id]
             \/ id \in Registered' /\ m_mClientNodes'[id].pData \in reported' \ reported
             \/ id \notin Registered' /\ m_mClientNodes[id].pData \in needRemove' \ needRemove
        /\ \A o \in reported' \ reported :
             server[o] \in Registered' /\ m_mClientNodes'[server[o]].pData = o ]_regVars

(* A server whose connection ended is forgotten, unless the master itself  *)
(* fails first.                                                            *)
DeadNodeIsForgotten ==
    \A o \in Objs :
        (o \in peerGone /\ o \in reported)
            ~> (fault \/ \A id \in Registered : m_mClientNodes[id].pData # o)

(* The register is a group membership: descriptors, their reuse, marks and *)
(* the order in which the ends of connections are noticed do not show in   *)
(* who is a member and in what the members were told (OnReportToServer,    *)
(* OnClientDisconnect, SyncNodeDataToAll).                                 *)
Group == INSTANCE Membership WITH
    Ids <- ServerIds, Sessions <- Objs,
    member <- Reports(m_mClientNodes), joined <- reported,
    ended <- needRemove, view <- lastList

RegistryIsMembership == Group!Spec

(* The log line of OnClientDisconnect names the server that left, "client  *)
(* (id name ip) disconnected": there is one whenever a connection ends.    *)
DisconnectNamesAServer == ~fault
=============================================================================

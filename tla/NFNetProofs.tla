----------------------------- MODULE NFNetProofs -----------------------------
(***************************************************************************)
(* Proofs about the connection table of NFNet, for every set of            *)
(* descriptors, every number of connections and every set of events.       *)
(***************************************************************************)
EXTENDS NFNet, FiniteSetTheorems, TLAPS

(* Marks only sit on objects that were created. *)
MarksAreBorn == \A o \in Objs : objState[o] = "new" => o \notin needRemove

NetInv == NetTypeOK /\ TableMatchesHeap /\ RemovalsMatchMarks /\ MarksAreBorn

(* The initial table is empty and satisfies the invariant. *)
LEMMA NetInitInv == NetInit => NetInv
<1> SUFFICES ASSUME NetInit PROVE NetInv
  OBVIOUS
<1> USE NFNetAssumption DEF NetInit
<1>1. DOMAIN mmObject = {} /\ mmObject \in [{} -> Objs]
  OBVIOUS
<1>2. NetTypeOK
  BY <1>1, {} \in SUBSET FDs DEF NetTypeOK
<1>3. Live = {}
  BY DEF Live
<1> QED
  BY <1>1, <1>2, <1>3 DEF NetInv, TableMatchesHeap, RemovalsMatchMarks, MarksAreBorn

(* CloseNetObject keeps marks and queue in step. *)
LEMMA CloseNetObjectInv ==
    ASSUME NetInv, NEW fd \in FDs, CloseNetObject(fd),
           UNCHANGED <<mmObject, objState, objFd, mbWorking, peerGone>>,
           fdOpen' \subseteq FDs, fdOpen \subseteq fdOpen',
           armed' \in [Objs -> SUBSET Sides], phase' \in {"idle", "loop"}
    PROVE  NetInv'
<1> USE NFNetAssumption DEF NetInv, CloseNetObject
<1>1. NetTypeOK'
  BY DEF NetTypeOK
<1>2. TableMatchesHeap'
  BY DEF TableMatchesHeap, Live, NetTypeOK
<1>3. RemovalsMatchMarks'
  BY DEF RemovalsMatchMarks, TableMatchesHeap, Live, NetTypeOK
<1>4. MarksAreBorn'
  BY DEF MarksAreBorn, TableMatchesHeap, NetTypeOK
<1> QED BY <1>1, <1>2, <1>3, <1>4

(* Closing a set of keys that contains every queued one keeps the table    *)
(* and the heap in agreement and leaves nothing queued.                    *)
LEMMA CloseObjectInv ==
    ASSUME NetInv, NEW fds, mvRemoveObject \subseteq fds, CloseObject(fds),
           mvRemoveObject' = {},
           UNCHANGED <<objFd, needRemove, mbWorking, peerGone>>,
           phase' \in {"idle", "loop"}
    PROVE  NetInv'
<1> USE NFNetAssumption DEF NetInv, CloseObject
<1>1. NetTypeOK'
  <2>1. mmObject' \in UNION {[D -> Objs] : D \in SUBSET FDs}
    <3>1. PICK D \in SUBSET FDs : mmObject \in [D -> Objs]
      BY DEF NetTypeOK
    <3>2. D \ fds \in SUBSET FDs /\ mmObject' \in [D \ fds -> Objs]
      BY <3>1
    <3> QED BY <3>2
  <2>2. objState' \in [Objs -> {"new", "live", "freed"}]
    BY DEF NetTypeOK
  <2>3. armed' \in [Objs -> SUBSET Sides]
    BY DEF NetTypeOK
  <2>4. \A o \in Objs : objState'[o] = "new" <=> objState[o] = "new"
    BY DEF NetTypeOK, TableMatchesHeap
  <2> QED BY <2>1, <2>2, <2>3, <2>4 DEF NetTypeOK
<1>2. \A fd \in DOMAIN mmObject' :
         /\ fd \in DOMAIN mmObject /\ fd \notin fds /\ mmObject'[fd] = mmObject[fd]
         /\ fd \in fdOpen'
         /\ mmObject[fd] \in Objs /\ objState'[mmObject[fd]] = "live"
         /\ objFd[mmObject[fd]] = fd
  <2> SUFFICES ASSUME NEW fd \in DOMAIN mmObject'
               PROVE  /\ fd \in DOMAIN mmObject /\ fd \notin fds /\ mmObject'[fd] = mmObject[fd]
                      /\ fd \in fdOpen'
                      /\ mmObject[fd] \in Objs /\ objState'[mmObject[fd]] = "live"
                      /\ objFd[mmObject[fd]] = fd
    OBVIOUS
  <2>1. fd \in DOMAIN mmObject /\ fd \notin fds /\ mmObject'[fd] = mmObject[fd]
    OBVIOUS
  <2>2. mmObject[fd] \in Objs /\ objState[mmObject[fd]] = "live" /\ objFd[mmObject[fd]] = fd
        /\ fd \in fdOpen
    BY <2>1 DEF TableMatchesHeap, NetTypeOK
  <2>3. mmObject[fd] \notin {mmObject[g] : g \in fds \cap DOMAIN mmObject}
    BY <2>1, <2>2 DEF TableMatchesHeap
  <2> QED BY <2>1, <2>2, <2>3
<1>3. \A o \in Live' : /\ o \in Live
                       /\ objFd[o] \in DOMAIN mmObject' /\ mmObject'[objFd[o]] = o
  BY DEF TableMatchesHeap, Live, NetTypeOK
<1>4. TableMatchesHeap'
  BY <1>2, <1>3 DEF TableMatchesHeap
<1>5. RemovalsMatchMarks'
  BY <1>2, <1>3 DEF RemovalsMatchMarks
<1>6. MarksAreBorn'
  BY DEF MarksAreBorn, NetTypeOK
<1> QED BY <1>1, <1>4, <1>5, <1>6

(* Accepting a connection under a free descriptor. *)
LEMMA ListenerCbInv ==
    ASSUME NetInv, NEW fd \in FDs, NEW o \in Objs, ListenerCb(fd, o)
    PROVE  NetInv'
<1> USE NFNetAssumption DEF NetInv, ListenerCb, Accepts, NewNetObject
<1>1. NetTypeOK'
  <2>1. mmObject' \in UNION {[D -> Objs] : D \in SUBSET FDs}
    BY DEF NetTypeOK
  <2> QED BY <2>1 DEF NetTypeOK, Sides
<1>2. o \notin Live /\ o \notin needRemove /\ \A f \in DOMAIN mmObject : mmObject[f] # o
  BY DEF TableMatchesHeap, MarksAreBorn, Live
<1>3. Live' = Live \cup {o}
  BY DEF Live, NetTypeOK
<1>4. \A f \in DOMAIN mmObject : mmObject'[f] = mmObject[f]
  OBVIOUS
<1>5. TableMatchesHeap'
  BY <1>2, <1>3, <1>4 DEF TableMatchesHeap, NetTypeOK, Live
<1>6. RemovalsMatchMarks'
  BY <1>2, <1>3, <1>4 DEF RemovalsMatchMarks, NetTypeOK, Live
<1>7. MarksAreBorn'
  BY DEF MarksAreBorn, NetTypeOK
<1> QED BY <1>1, <1>5, <1>6, <1>7

(* Every step of the connection table keeps the invariant. *)
LEMMA NetNextInv == NetInv /\ [NetNext]_netVars => NetInv'
<1> SUFFICES ASSUME NetInv, [NetNext]_netVars PROVE NetInv'
  OBVIOUS
<1> USE NFNetAssumption
<1>1. CASE Execute
  BY <1>1, CloseObjectInv DEF Execute, ExecuteClose
<1>2. CASE ExecuteReturns
  BY <1>2 DEF ExecuteReturns, NetInv, NetTypeOK, TableMatchesHeap, RemovalsMatchMarks,
              MarksAreBorn, Live
<1>3. CASE \E fd \in FDs, o \in Objs : ListenerCb(fd, o)
  BY <1>3, ListenerCbInv
<1>4. CASE \E fd \in FDs : ListenerCbReturns(fd)
  BY <1>4, CloseNetObjectInv DEF ListenerCbReturns, NetInv, NetTypeOK
<1>5. CASE \E o \in Objs, ev \in Events : ConnEventCb(o, ev)
  <2> PICK o \in Objs, ev \in Events : ConnEventCb(o, ev)
    BY <1>5
  <2>1. objFd[o] \in FDs
    BY DEF ConnEventCb, NetInv, NetTypeOK, TableMatchesHeap, Live
  <2>2. armed' \in [Objs -> SUBSET Sides]
    BY DEF ConnEventCb, NetInv, NetTypeOK
  <2> QED BY <2>1, <2>2, CloseNetObjectInv DEF ConnEventCb, NetInv, NetTypeOK
<1>6. CASE \E fd \in FDs : Kick(fd)
  BY <1>6, CloseNetObjectInv DEF Kick, NetInv, NetTypeOK
<1>7. CASE KickAll
  BY <1>7, CloseObjectInv DEF KickAll, NetInv, NetTypeOK
<1>8. CASE \E o \in Objs : PeerCloses(o)
  BY <1>8 DEF PeerCloses, NetInv, NetTypeOK, TableMatchesHeap, RemovalsMatchMarks,
              MarksAreBorn, Live
<1>9. CASE UNCHANGED netVars
  BY <1>9 DEF netVars, NetInv, NetTypeOK, TableMatchesHeap, RemovalsMatchMarks,
              MarksAreBorn, Live
<1> QED
  BY <1>1, <1>2, <1>3, <1>4, <1>5, <1>6, <1>7, <1>8, <1>9 DEF NetNext

(* The table and the heap agree, and the queue of deferred closes matches  *)
(* the marks, in every reachable state.                                    *)
THEOREM NetInvariance ==
    NetSpec => [](NetTypeOK /\ TableMatchesHeap /\ RemovalsMatchMarks)
<1>1. NetInv => NetTypeOK /\ TableMatchesHeap /\ RemovalsMatchMarks
  BY DEF NetInv
<1> QED BY <1>1, NetInitInv, NetNextInv, PTL DEF NetSpec

(* A connection is freed only if it was marked, except by KickAll.         *)
THEOREM OnlyMarkedFreed == NetSpec => FreedOnlyIfMarked
<1> DEFINE Step == (\E o \in Live \ needRemove : objState'[o] = "freed")
                     => DOMAIN mmObject' = {} /\ phase = "idle" /\ phase' = "idle"
<1>1. NetInv /\ [NetNext]_netVars => [Step]_netVars
  <2> SUFFICES ASSUME NetInv, NetNext, \E o \in Live \ needRemove : objState'[o] = "freed"
               PROVE  DOMAIN mmObject' = {} /\ phase = "idle" /\ phase' = "idle"
    BY Zenon
  <2> PICK o \in Live \ needRemove : objState'[o] = "freed"
    OBVIOUS
  <2>1. CASE Execute
    BY <2>1 DEF Execute, ExecuteClose, CloseObject, NetInv, RemovalsMatchMarks, Live, NetTypeOK
  <2>2. CASE KickAll
    BY <2>2 DEF KickAll, CloseObject
  <2>3. CASE ~(Execute \/ KickAll)
    BY <2>3 DEF NetNext, ExecuteReturns, ListenerCb, NewNetObject, ListenerCbReturns, ConnEventCb, Kick,
                PeerCloses, Live, NetInv, NetTypeOK
  <2> QED BY <2>1, <2>2, <2>3
<1> QED BY <1>1, NetInitInv, NetNextInv, PTL DEF NetSpec, FreedOnlyIfMarked

(* The number of connections never exceeds mnMaxConnect. *)
THEOREM ConnectionsBounded == NetSpec => []WithinMaxConnect
<1> DEFINE Bounded == IsFiniteSet(DOMAIN mmObject) /\ WithinMaxConnect
<1>1. NetInit => Bounded
  BY FS_EmptySet, NFNetAssumption DEF NetInit, WithinMaxConnect
<1>2. NetInv /\ Bounded /\ [NetNext]_netVars => Bounded'
  <2> SUFFICES ASSUME NetInv, Bounded, [NetNext]_netVars PROVE Bounded'
    OBVIOUS
  <2>1. CASE \E fd \in FDs, o \in Objs : ListenerCb(fd, o)
    <3> PICK fd \in FDs, o \in Objs : ListenerCb(fd, o)
      BY <2>1
    <3>1. DOMAIN mmObject' = DOMAIN mmObject \cup {fd}
      BY DEF ListenerCb
    <3>2. Cardinality(DOMAIN mmObject) < MaxConnect /\ fd \notin DOMAIN mmObject
      BY DEF ListenerCb, Accepts
    <3>3. Cardinality(DOMAIN mmObject) \in Nat
      BY FS_CardinalityType
    <3>4. IsFiniteSet(DOMAIN mmObject') /\ Cardinality(DOMAIN mmObject') = Cardinality(DOMAIN mmObject) + 1
      BY <3>1, <3>2, FS_AddElement
    <3> QED BY <3>2, <3>3, <3>4, NFNetAssumption DEF WithinMaxConnect
  <2>2. CASE ~\E fd \in FDs, o \in Objs : ListenerCb(fd, o)
    <3>1. DOMAIN mmObject' \subseteq DOMAIN mmObject
      BY <2>2 DEF NetNext, netVars, Execute, ExecuteClose, CloseObject, ExecuteReturns,
                  ListenerCbReturns, ConnEventCb, Kick, KickAll, PeerCloses
    <3>2. IsFiniteSet(DOMAIN mmObject') /\ Cardinality(DOMAIN mmObject') <= Cardinality(DOMAIN mmObject)
      BY <3>1, FS_Subset
    <3>3. Cardinality(DOMAIN mmObject) \in Nat /\ Cardinality(DOMAIN mmObject') \in Nat
      BY <3>2, FS_CardinalityType
    <3> QED BY <3>2, <3>3, NFNetAssumption DEF WithinMaxConnect
  <2> QED BY <2>1, <2>2
<1>3. Bounded => WithinMaxConnect
  OBVIOUS
<1> QED BY <1>1, <1>2, <1>3, NetInitInv, NetNextInv, PTL DEF NetSpec

(* The parts of NetInvariance by name: the types of the table, the heap    *)
(* and the descriptors (NFNet.h), ...                                      *)
THEOREM NetTypeCorrect == NetSpec => []NetTypeOK
BY NetInvariance, PTL

(* ... the closes that are queued, each for a marked NetObject that is     *)
(* still in the table, and every mark with its close (CloseNetObject,      *)
(* ExecuteClose).                                                          *)
THEOREM MarksAreQueued == NetSpec => []RemovalsMatchMarks
BY NetInvariance, PTL

-----------------------------------------------------------------------------
(* libevent calls back only for NetObjects that exist, and one whose event   *)
(* was raised is marked: an unmarked one still hears of the end of its       *)
(* connection on both sides, so none can hang up unheard.                    *)
EventsFindLive ==
    /\ \A o \in Objs : armed[o] # {} => objState[o] = "live"
    /\ \A o \in Live \ needRemove : armed[o] = Sides

(* The next Execute deletes whatever was marked before it, and nothing else. *)
MarkedGoNextPass ==
    [][Execute => \A o \in Live : objState'[o] = "freed" <=> o \in needRemove]_netVars

(* No event reaches a deleted NetObject, and no connection is deaf to its   *)
(* end before it was marked, for all descriptors, connections and events    *)
(* (listener_cb, conn_eventcb, CloseObject).                                *)
THEOREM NoDeafConnection == NetSpec => []EventsFindLive
<1>1. NetInit => EventsFindLive
  BY DEF NetInit, EventsFindLive, Live
<1>2. NetInv /\ EventsFindLive /\ [NetNext]_netVars => EventsFindLive'
  <2> SUFFICES ASSUME NetInv, EventsFindLive, [NetNext]_netVars PROVE EventsFindLive'
    OBVIOUS
  <2>1. ASSUME NEW fds, CloseObject(fds), needRemove' = needRemove PROVE EventsFindLive'
    BY <2>1 DEF CloseObject, EventsFindLive, Live, NetInv, NetTypeOK
  <2>2. CASE Execute \/ KickAll
    BY <2>1, <2>2 DEF Execute, ExecuteClose, KickAll
  <2>3. ASSUME NEW fd \in FDs, NEW o \in Objs, ListenerCb(fd, o) PROVE EventsFindLive'
    BY <2>3 DEF ListenerCb, NewNetObject, EventsFindLive, Live, NetInv, NetTypeOK
  <2>4. ASSUME NEW o \in Objs, NEW ev \in Events, ConnEventCb(o, ev) PROVE EventsFindLive'
    <3>1. o \in Live /\ objFd[o] \in DOMAIN mmObject /\ mmObject[objFd[o]] = o
      BY <2>4 DEF ConnEventCb, Live, NetInv, TableMatchesHeap
    <3>2. needRemove' = needRemove \cup {o}
      BY <2>4, <3>1 DEF ConnEventCb, CloseNetObject
    <3>3. \A p \in Objs \ {o} : armed'[p] = armed[p]
      BY <2>4 DEF ConnEventCb, NetInv, NetTypeOK
    <3>4. objState' = objState
      BY <2>4 DEF ConnEventCb
    <3> QED BY <3>1, <3>2, <3>3, <3>4 DEF EventsFindLive, Live
  <2>5. CASE \/ \E fd \in FDs : ListenerCbReturns(fd) \/ Kick(fd)
             \/ \E o \in Objs : PeerCloses(o)
             \/ ExecuteReturns \/ UNCHANGED netVars
    <3>1. UNCHANGED <<objState, armed>> /\ needRemove \subseteq needRemove'
      BY <2>5 DEF ListenerCbReturns, Kick, CloseNetObject, PeerCloses, ExecuteReturns, netVars
    <3> QED BY <3>1 DEF EventsFindLive, Live
  <2> QED BY <2>2, <2>3, <2>4, <2>5 DEF NetNext
<1> QED BY <1>1, <1>2, NetInitInv, NetNextInv, PTL DEF NetSpec

(* One pass of the event loop after the mark the NetObject is gone, and a   *)
(* pass takes no other with it: the queue names exactly the marked ones     *)
(* (ExecuteClose).                                                          *)
THEOREM MarkedGoAtOnce == NetSpec => MarkedGoNextPass
<1> DEFINE Step == Execute => \A o \in Live : objState'[o] = "freed" <=> o \in needRemove
<1>1. NetInv /\ [NetNext]_netVars => [Step]_netVars
  <2> SUFFICES ASSUME NetInv, Execute, NEW o \in Live
               PROVE  objState'[o] = "freed" <=> o \in needRemove
    OBVIOUS
  <2> DEFINE gone == {mmObject[fd] : fd \in mvRemoveObject \cap DOMAIN mmObject}
  <2>1. objState' = [p \in Objs |-> IF p \in gone THEN "freed" ELSE objState[p]]
    BY DEF Execute, ExecuteClose, CloseObject
  <2>2. o \in Objs /\ objState[o] = "live"
    BY DEF Live
  <2>3. o \in gone <=> o \in needRemove
    BY DEF NetInv, RemovalsMatchMarks, TableMatchesHeap
  <2> QED BY <2>1, <2>2, <2>3
<1> QED BY <1>1, NetInitInv, NetNextInv, PTL DEF NetSpec, MarkedGoNextPass
=============================================================================

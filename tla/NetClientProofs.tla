--------------------------- MODULE NetClientProofs ---------------------------
(***************************************************************************)
(* Proofs about the outgoing connections of a server and about the hash    *)
(* ring, for every set of servers, every number of points per server and   *)
(* hash values that servers may share as long as each has one of its own.  *)
(***************************************************************************)
EXTENDS NetClient, FiniteSetTheorems, WellFoundedInduction, TLAPS

(* A ring whose members are the servers of normal: its points lead to      *)
(* members, and no member has lost the points that are its own.            *)
GoodRing(ring, normal) ==
    /\ ring.members = normal
    /\ DOMAIN ring.mxNodes \subseteq Nat
    /\ \A h \in DOMAIN ring.mxNodes : ring.mxNodes[h] \in normal /\ h \in Points(ring.mxNodes[h])
    /\ \A id \in normal : Private(id) \subseteq DOMAIN ring.mxNodes

RingsInv == \A t \in Types : GoodRing(mxEServerTypeMap[t], NormalOf(t))

(* With Init called, NORMAL is the state of the connections that are up.   *)
UpIsNormal ==
    \A id \in Ids : /\ eState[id] = "NORMAL" => socket[id] = "up"
                    /\ mInitCalled /\ socket[id] = "up" => eState[id] = "NORMAL"
                    /\ socket[id] = "closed" /\ mInitCalled => eState[id] = "DISCONNECT"
                    /\ eState[id] = "DISCONNECT" => socket[id] = "closed"

(* Connections that hold a descriptor hold different ones. *)
DistinctSockets == \A i, j \in Ids : realFD[i] = realFD[j] => i = j \/ realFD[i] = NoFd

ClientInv == ClientTypeOK /\ RingsInv /\ UpIsNormal /\ DistinctSockets

-----------------------------------------------------------------------------
(* Every non-empty set of hash values has a lowest one. *)
LEMMA LowestExists ==
    ASSUME NEW hashes, hashes \subseteq Nat, hashes # {}
    PROVE  Lowest(hashes) \in hashes /\ \A h \in hashes : Lowest(hashes) <= h
<1> DEFINE Below(n) == {h \in hashes : h <= n}
           family == {Below(n) : n \in hashes}
<1>1. \A n \in hashes : IsFiniteSet(Below(n)) /\ Below(n) \subseteq Nat
  <2> SUFFICES ASSUME NEW n \in hashes PROVE IsFiniteSet(Below(n)) /\ Below(n) \subseteq Nat
    OBVIOUS
  <2>1. n \in Nat /\ Below(n) \in SUBSET Nat /\ \A h \in Below(n) : h <= n
    OBVIOUS
  <2>2. IsFiniteSet(Below(n))
    BY <2>1, FS_BoundedSetOfNaturals
  <2> QED BY <2>1, <2>2
<1>2. family \subseteq FiniteSubsetsOf(Nat) /\ family # {}
  BY <1>1 DEF FiniteSubsetsOf
<1>3. PICK X \in family : \A Y \in family : ~(<<Y, X>> \in StrictSubsetOrdering(Nat))
  <2> HIDE DEF family
  <2> QED BY <1>2, FS_StrictSubsetOrderingWellFounded, WFMin
<1>4. PICK n \in hashes : X = Below(n)
  OBVIOUS
<1>5. \A m \in hashes : n <= m
  <2> SUFFICES ASSUME NEW m \in hashes, m < n PROVE FALSE
    OBVIOUS
  <2>0. m \in Nat /\ n \in Nat /\ ~(n <= m)
    OBVIOUS
  <2>1. Below(m) \in family /\ Below(m) \subseteq Below(n) /\ Below(m) # Below(n)
    <3>1. Below(m) \in family
      OBVIOUS
    <3>2. \A h \in hashes : h <= m => h <= n
      BY <2>0
    <3>2a. Below(m) \subseteq Below(n)
      BY <3>2
    <3>3. n \in Below(n) /\ n \notin Below(m)
      BY <2>0
    <3> QED BY <3>1, <3>2a, <3>3
  <2>2. <<Below(m), X>> \in StrictSubsetOrdering(Nat)
    BY <1>1, <1>4, <2>1 DEF StrictSubsetOrdering
  <2> QED BY <1>3, <2>1, <2>2
<1> QED BY <1>5 DEF Lowest

(* The point a key leads to on a ring with these points, and the server there. *)
PointOf(points, key) ==
    LET after == {h \in points : h >= key}
    IN  Lowest(IF after = {} THEN points ELSE after)

LEMMA PointExists ==
    ASSUME NEW points, points \subseteq Nat, points # {}, NEW key \in Nat
    PROVE  /\ PointOf(points, key) \in points
           /\ (\E h \in points : h >= key) => PointOf(points, key) >= key
           /\ \A h \in points : h >= key \/ PointOf(points, key) < key => PointOf(points, key) <= h
<1> DEFINE after == {h \in points : h >= key}
           seen == IF after = {} THEN points ELSE after
<1>1. seen \subseteq points /\ seen # {} /\ seen \subseteq Nat
  OBVIOUS
<1>2. Lowest(seen) \in seen /\ \A h \in seen : Lowest(seen) <= h
  BY <1>1, LowestExists
<1>3. PointOf(points, key) = Lowest(seen)
  BY DEF PointOf
<1> HIDE DEF seen
<1>4. CASE after = {}
  BY <1>2, <1>3, <1>4 DEF seen
<1>5. CASE after # {}
  <2>1. seen = after
    BY <1>5 DEF seen
  <2> DEFINE p == PointOf(points, key)
  <2>2. p \in after /\ \A h \in after : p <= h
    BY <1>2, <1>3, <2>1
  <2>3. p \in points /\ p >= key /\ p \in Nat
    BY <2>2
  <2>4. ASSUME NEW h \in points, h >= key \/ p < key PROVE p <= h
    <3>1. h >= key
      BY <2>3, <2>4
    <3> QED BY <2>2, <3>1
  <2> HIDE DEF p
  <2>5. p \in points /\ p >= key /\ \A h \in points : h >= key \/ p < key => p <= h
    BY <2>3, <2>4
  <2> QED BY <2>5 DEF p
<1> QED BY <1>4, <1>5

(* A key keeps its point when others come or go. *)
LEMMA PointStays ==
    ASSUME NEW few, NEW many, few \subseteq many, many \subseteq Nat, NEW key \in Nat,
           few # {}, PointOf(many, key) \in few
    PROVE  PointOf(few, key) = PointOf(many, key)
<1> DEFINE p == PointOf(few, key)
           q == PointOf(many, key)
<1>1. /\ p \in few /\ ((\E h \in few : h >= key) => p >= key)
      /\ \A h \in few : h >= key \/ p < key => p <= h
  BY PointExists
<1>2. /\ q \in many /\ ((\E h \in many : h >= key) => q >= key)
      /\ \A h \in many : h >= key \/ q < key => q <= h
  BY PointExists
<1>3. p \in Nat /\ q \in Nat /\ q \in few /\ p \in many
  BY <1>1
<1> HIDE DEF p, q
<1>4. p >= key <=> q >= key
  BY <1>1, <1>2, <1>3
<1>5. p <= q /\ q <= p
  BY <1>1, <1>2, <1>3, <1>4
<1>6. p = q
  BY <1>3, <1>5
<1> QED BY <1>6 DEF p, q

(* Points are natural numbers. *)
LEMMA PointsType == \A id \in Ids : Points(id) \subseteq Nat
  BY HashRingAssumption DEF Points

(* A server that joins a good ring leaves a good ring. *)
LEMMA AddElementGood ==
    ASSUME NEW ring, NEW normal, normal \subseteq Ids, NEW id \in Ids, GoodRing(ring, normal)
    PROVE  GoodRing(AddElement(ring, id), normal \cup {id})
<1>1. CASE id \in ring.members
  BY <1>1 DEF GoodRing, AddElement
<1>2. CASE id \notin ring.members
  <2> DEFINE new == AddElement(ring, id)
  <2>1. new.members = normal \cup {id} /\ DOMAIN new.mxNodes = DOMAIN ring.mxNodes \cup Points(id)
    BY <1>2 DEF AddElement, GoodRing
  <2>2. \A h \in DOMAIN new.mxNodes :
            new.mxNodes[h] = IF h \in DOMAIN ring.mxNodes THEN ring.mxNodes[h] ELSE id
    BY <1>2 DEF AddElement
  <2>3. Private(id) \subseteq Points(id)
    BY DEF Private
  <2> QED BY <2>1, <2>2, <2>3, PointsType DEF GoodRing
<1> QED BY <1>1, <1>2

(* So does one that leaves it: it takes no point that is another's own.    *)
LEMMA RemoveElementGood ==
    ASSUME NEW ring, NEW normal, normal \subseteq Ids, NEW id \in Ids, GoodRing(ring, normal)
    PROVE  GoodRing(RemoveElement(ring, id), normal \ {id})
<1>1. CASE id \notin ring.members
  BY <1>1 DEF GoodRing, RemoveElement
<1>2. CASE id \in ring.members
  <2> DEFINE new == RemoveElement(ring, id)
  <2>1. new.members = normal \ {id} /\ DOMAIN new.mxNodes = DOMAIN ring.mxNodes \ Points(id)
    BY <1>2 DEF RemoveElement, GoodRing
  <2>2. \A h \in DOMAIN new.mxNodes : new.mxNodes[h] = ring.mxNodes[h]
    BY <1>2 DEF RemoveElement
  <2>3. \A other \in Ids \ {id} : Private(other) \cap Points(id) = {}
    BY DEF Private
  <2> QED BY <2>1, <2>2, <2>3 DEF GoodRing
<1> QED BY <1>1, <1>2

(* On a good ring every key finds a member, if there is one. *)
LEMMA SuitIsMember ==
    ASSUME NEW ring, NEW normal, normal \subseteq Ids, GoodRing(ring, normal), NEW key \in Nat
    PROVE  IF normal = {} THEN GetElementBySuit(ring, key) = NoNode
           ELSE GetElementBySuit(ring, key) \in normal
<1> DEFINE all == DOMAIN ring.mxNodes
           after == {h \in all : h >= key}
           seen == IF after = {} THEN all ELSE after
<1>1. ring.members = normal
  BY DEF GoodRing
<1>2. CASE normal = {}
  BY <1>1, <1>2 DEF GetElementBySuit
<1>3. CASE normal # {}
  <2>1. all # {}
    BY <1>3, PrivatePointsAssumption DEF GoodRing
  <2>2. seen # {} /\ seen \subseteq all /\ all \subseteq Nat
    BY <2>1 DEF GoodRing
  <2>3. Lowest(seen) \in all
    BY <2>2, LowestExists
  <2>4. GetSuitNode(ring, key) = ring.mxNodes[Lowest(seen)]
    BY <2>1 DEF GetSuitNode
  <2>5. ring.mxNodes[Lowest(seen)] \in normal
    BY <2>3 DEF GoodRing
  <2> QED BY <1>1, <1>3, <2>4, <2>5 DEF GetElementBySuit
<1> QED BY <1>2, <1>3

-----------------------------------------------------------------------------
(* Rings stay good where neither they nor the NORMAL servers change. *)
LEMMA RingsUnchanged ==
    ASSUME RingsInv, UNCHANGED mxEServerTypeMap,
           \A id \in Ids : eState'[id] = "NORMAL" <=> eState[id] = "NORMAL"
    PROVE  RingsInv'
<1>1. \A t \in Types : NormalOf(t)' = NormalOf(t)
  BY DEF NormalOf
<1> QED BY <1>1 DEF RingsInv, GoodRing

(* The invariant holds before the first Execute. *)
LEMMA ClientInitInv == ClientInit => ClientInv
<1> SUFFICES ASSUME ClientInit PROVE ClientInv
  OBVIOUS
<1> USE NetClientAssumption, HashRingAssumption DEF ClientInit
<1>1. ClientTypeOK
  <2>1. mInitCalled \in BOOLEAN /\ ticked \in BOOLEAN
    BY Zenon
  <2>2. Known = {}
    BY DEF Known
  <2>3. 0 \in 0 .. Interval + 1
    OBVIOUS
  <2> QED BY <2>1, <2>2, <2>3 DEF ClientTypeOK, Idle
<1>2. RingsInv
  BY DEF RingsInv, GoodRing, NormalOf, EmptyRing
<1> QED BY <1>1, <1>2 DEF ClientInv, UpIsNormal, DistinctSockets

(* The walk's cursor moves to a server or to the end. *)
LEMMA CursorType == FirstOf(Known) \in Ids \cup {AtEnd} /\ \A id \in Ids : NextAfter(id) \in Ids \cup {AtEnd}
<1>1. \A ids \in SUBSET Ids : FirstOf(ids) \in Ids \cup {AtEnd}
  <2> SUFFICES ASSUME NEW ids \in SUBSET Ids, ids # {} PROVE FirstOf(ids) \in Ids
    BY DEF FirstOf
  <2>1. Lowest(ids) \in ids
    BY LowestExists, HashRingAssumption
  <2> QED BY <2>1 DEF Lowest, FirstOf
<1> QED BY <1>1 DEF NextAfter, Known

(* A connection that comes up joins its type's ring. *)
LEMMA VisitConnectedInv ==
    ASSUME ClientInv, NEW id \in Ids, VisitConnected(id)
    PROVE  ClientInv'
<1> USE NetClientAssumption DEF ClientInv, VisitConnected, OnConnected
<1>1. ClientTypeOK'
  BY CursorType DEF ClientTypeOK, Known, Advance
<1>2. RingsInv'
  <2>1. CASE mInitCalled
    <3>1. \A t \in Types : NormalOf(t)' = IF t = TypeOf[id] THEN NormalOf(t) \cup {id} ELSE NormalOf(t)
      BY <2>1 DEF NormalOf, ClientTypeOK
    <3>2. \A t \in Types : mxEServerTypeMap'[t] = IF t = TypeOf[id]
                             THEN AddElement(mxEServerTypeMap[t], id) ELSE mxEServerTypeMap[t]
      BY <2>1 DEF ClientTypeOK
    <3>3. \A t \in Types : NormalOf(t) \subseteq Ids /\ GoodRing(mxEServerTypeMap[t], NormalOf(t))
      BY DEF RingsInv, NormalOf
    <3>4. \A t \in Types : GoodRing(AddElement(mxEServerTypeMap[t], id), NormalOf(t) \cup {id})
      BY <3>3, AddElementGood
    <3>5. \A t \in Types : GoodRing(mxEServerTypeMap'[t], NormalOf(t)')
      BY <3>1, <3>2, <3>3, <3>4
    <3> QED BY <3>5 DEF RingsInv
  <2>2. CASE ~mInitCalled
    BY <2>2, RingsUnchanged
  <2> QED BY <2>1, <2>2
<1>3. UpIsNormal' /\ DistinctSockets'
  BY DEF UpIsNormal, DistinctSockets, ClientTypeOK, Known
<1> QED BY <1>1, <1>2, <1>3

(* A connection that ends leaves its type's ring. *)
LEMMA VisitDisConnectedInv ==
    ASSUME ClientInv, NEW id \in Ids, VisitDisConnected(id)
    PROVE  ClientInv'
<1> USE NetClientAssumption DEF ClientInv, VisitDisConnected, OnDisConnected
<1>1. ClientTypeOK'
  BY CursorType DEF ClientTypeOK, Known, Advance
<1>2. RingsInv'
  <2>1. CASE mInitCalled
    <3>1. \A t \in Types : NormalOf(t)' = IF t = TypeOf[id] THEN NormalOf(t) \ {id} ELSE NormalOf(t)
      BY <2>1 DEF NormalOf, ClientTypeOK
    <3>2. \A t \in Types : mxEServerTypeMap'[t] = IF t = TypeOf[id]
                             THEN RemoveElement(mxEServerTypeMap[t], id) ELSE mxEServerTypeMap[t]
      BY <2>1 DEF ClientTypeOK
    <3>3. \A t \in Types : NormalOf(t) \subseteq Ids /\ GoodRing(mxEServerTypeMap[t], NormalOf(t))
      BY DEF RingsInv, NormalOf
    <3>4. \A t \in Types : GoodRing(RemoveElement(mxEServerTypeMap[t], id), NormalOf(t) \ {id})
      BY <3>3, RemoveElementGood
    <3>5. \A t \in Types : GoodRing(mxEServerTypeMap'[t], NormalOf(t)')
      BY <3>1, <3>2, <3>3, <3>4
    <3> QED BY <3>5 DEF RingsInv
  <2>2. CASE ~mInitCalled
    BY <2>2, RingsUnchanged
  <2> QED BY <2>1, <2>2
<1>3. UpIsNormal' /\ DistinctSockets'
  BY DEF UpIsNormal, DistinctSockets, ClientTypeOK, Known
<1> QED BY <1>1, <1>2, <1>3

(* New modules: whichever of them fail at once, the others hold sockets of  *)
(* their own.                                                              *)
LEMMA NewModulesHold ==
    ASSUME ClientInv, NEW ids, ids \subseteq {id \in Ids : socket[id] = "none"}, NewModules(ids)
    PROVE  /\ socket' \in [Ids -> {"none", "failed", "dialing", "up", "closed"}]
           /\ realFD' \in [Ids -> FDs \cup {NoFd}]
           /\ \A id \in Ids : realFD'[id] = NoFd <=> socket'[id] \in {"none", "failed"}
           /\ \A id \in Ids : IF id \in ids THEN socket'[id] \in {"failed", "dialing"}
                              ELSE socket'[id] = socket[id]
           /\ DistinctSockets'
<1>0. PICK failed \in SUBSET ids : \E fd \in NewFDs(ids \ failed) :
        /\ socket' = [id \in Ids |-> IF id \in failed THEN "failed"
                                     ELSE IF id \in ids THEN "dialing" ELSE socket[id]]
        /\ realFD' = [id \in Ids |-> IF id \in ids \ failed THEN fd[id] ELSE realFD[id]]
  BY DEF NewModules
<1>1. PICK fd \in NewFDs(ids \ failed) :
        /\ socket' = [id \in Ids |-> IF id \in failed THEN "failed"
                                     ELSE IF id \in ids THEN "dialing" ELSE socket[id]]
        /\ realFD' = [id \in Ids |-> IF id \in ids \ failed THEN fd[id] ELSE realFD[id]]
  BY <1>0
<1>2. /\ \A i \in ids \ failed : fd[i] \in FreeFDs
      /\ \A i, j \in ids \ failed : fd[i] = fd[j] => i = j
  BY DEF NewFDs
<1>3. \A i \in ids \ failed : fd[i] \in FDs /\ fd[i] # NoFd /\ \A j \in Ids : realFD[j] # fd[i]
  BY <1>2, NetClientAssumption DEF FreeFDs
<1>4. /\ socket \in [Ids -> {"none", "failed", "dialing", "up", "closed"}]
      /\ realFD \in [Ids -> FDs \cup {NoFd}]
      /\ \A id \in Ids : realFD[id] = NoFd <=> socket[id] \in {"none", "failed"}
      /\ DistinctSockets
  BY DEF ClientInv, ClientTypeOK
<1>5. /\ socket' \in [Ids -> {"none", "failed", "dialing", "up", "closed"}]
      /\ \A id \in Ids : IF id \in ids THEN socket'[id] \in {"failed", "dialing"}
                         ELSE socket'[id] = socket[id]
  BY <1>1, <1>4
<1>6. realFD' \in [Ids -> FDs \cup {NoFd}]
  BY <1>1, <1>3, <1>4
<1>7. \A id \in Ids : realFD'[id] = NoFd <=> socket'[id] \in {"none", "failed"}
  BY <1>1, <1>3, <1>4
<1>8. DistinctSockets'
  BY <1>1, <1>2, <1>3, <1>4 DEF DistinctSockets
<1> QED BY <1>5, <1>6, <1>7, <1>8

(* Dialling and redialling. *)
LEMMA DialInv ==
    ASSUME ClientInv, \/ \E id \in Ids : mObjectCurIter = id /\ VisitReconnect(id)
                      \/ ProcessAddNetConnect
    PROVE  ClientInv'
<1> USE NetClientAssumption
<1>1. CASE \E id \in Ids : mObjectCurIter = id /\ VisitReconnect(id)
  <2>1. PICK id \in Ids : mObjectCurIter = id /\ VisitReconnect(id)
    BY <1>1
  <2>2. {id} \subseteq {i \in Ids : socket[i] = "none"} /\ NewModules({id})
    BY <2>1 DEF VisitReconnect, ClientInv, ClientTypeOK
  <2>3. ClientTypeOK'
    BY <2>1, <2>2, NewModulesHold, CursorType
    DEF ClientInv, ClientTypeOK, VisitReconnect, Advance, Known
  <2>4. RingsInv'
    <3>1. \A i \in Ids : eState'[i] = "NORMAL" <=> eState[i] = "NORMAL"
      BY <2>1 DEF VisitReconnect, ClientInv, ClientTypeOK
    <3> QED BY <2>1, <3>1, RingsUnchanged DEF VisitReconnect, ClientInv
  <2>5. UpIsNormal' /\ DistinctSockets'
    BY <2>1, <2>2, NewModulesHold DEF VisitReconnect, ClientInv, ClientTypeOK, UpIsNormal
  <2> QED BY <2>3, <2>4, <2>5 DEF ClientInv
<1>2. CASE ProcessAddNetConnect
  <2> DEFINE new == mxTempNetList \ Known
  <2>1. /\ new \subseteq {i \in Ids : socket[i] = "none"} /\ NewModules(new)
        /\ eState' = [id \in Ids |-> IF id \in new THEN "CONNECTING" ELSE eState[id]]
        /\ age' = [id \in Ids |-> IF id \in new THEN 0 ELSE age[id]]
        /\ \A id \in new : eState[id] = "UNKNOWN"
        /\ UNCHANGED <<mInitCalled, mxEServerTypeMap, ticked, lost>>
        /\ mxTempNetList' = {} /\ mObjectCurIter' = Idle
    BY <1>2 DEF ProcessAddNetConnect, ClientInv, ClientTypeOK, Known
  <2> HIDE DEF new
  <2>2. ClientTypeOK'
    BY <2>1, NewModulesHold DEF ClientInv, ClientTypeOK, Known, Idle
  <2>3. RingsInv'
    <3>1. \A i \in Ids : eState'[i] = "NORMAL" <=> eState[i] = "NORMAL"
      BY <2>1 DEF ClientInv, ClientTypeOK
    <3> QED BY <2>1, <3>1, RingsUnchanged DEF ClientInv
  <2>4. UpIsNormal' /\ DistinctSockets'
    BY <2>1, NewModulesHold DEF ClientInv, ClientTypeOK, UpIsNormal
  <2> QED BY <2>2, <2>3, <2>4 DEF ClientInv
<1> QED BY <1>1, <1>2

(* The steps that change no connection's state but by DISCONNECT's visit. *)
LEMMA OtherStepsInv ==
    ASSUME ClientInv,
           \/ ExecuteBegins
           \/ \E id \in Ids : \/ VisitDisconnect(id) \/ VisitReconnectWaits(id) \/ VisitQuiet(id)
           \/ \E ids \in Lists : VisitMasterMessage(ids)
           \/ \E id \in Ids : PeerHangsUp(id)
           \/ Tick
           \/ UNCHANGED clientVars
    PROVE  ClientInv'
<1> USE NetClientAssumption DEF ClientInv
<1>1. ClientTypeOK'
  <2> USE DEF ClientTypeOK, Known
  <2>1. CASE ExecuteBegins
    BY <2>1, CursorType DEF ExecuteBegins
  <2>2. CASE \E id \in Ids : VisitDisconnect(id)
    BY <2>2, CursorType DEF VisitDisconnect, DropModule, Advance
  <2>3. CASE \E id \in Ids : VisitReconnectWaits(id)
    BY <2>3, CursorType DEF VisitReconnectWaits, Advance
  <2>4. ASSUME NEW id \in Ids, KeepState(id)
        PROVE  age' \in [Ids -> 0 .. Interval + 1] /\ mObjectCurIter' \in Ids \cup {Idle, AtEnd}
    BY <2>4, CursorType DEF KeepState, Advance
  <2>5. CASE \E id \in Ids : VisitQuiet(id)
    BY <2>4, <2>5 DEF VisitQuiet
  <2>6. CASE \E ids \in Lists : VisitMasterMessage(ids)
    BY <2>4, <2>6 DEF VisitMasterMessage
  <2>7. CASE \E id \in Ids : PeerHangsUp(id)
    BY <2>7 DEF PeerHangsUp
  <2>8. CASE Tick
    <3>1. age' \in [Ids -> 0 .. Interval + 1]
      BY <2>8 DEF Tick
    <3> QED BY <2>8, <3>1 DEF Tick
  <2>9. CASE UNCHANGED clientVars
    BY <2>9 DEF clientVars
  <2> QED BY <2>1, <2>2, <2>3, <2>5, <2>6, <2>7, <2>8, <2>9
<1>2. UNCHANGED mxEServerTypeMap /\ \A id \in Ids : eState'[id] = "NORMAL" <=> eState[id] = "NORMAL"
  BY DEF ClientTypeOK, ExecuteBegins, VisitDisconnect, VisitReconnectWaits, VisitQuiet,
     VisitMasterMessage, PeerHangsUp, Tick, clientVars
<1>3. RingsInv'
  BY <1>2, RingsUnchanged
<1>4. UpIsNormal' /\ DistinctSockets'
  BY DEF UpIsNormal, DistinctSockets, ClientTypeOK, ExecuteBegins, VisitDisconnect, DropModule,
     VisitReconnectWaits, VisitQuiet, VisitMasterMessage, PeerHangsUp, Tick, clientVars
<1> QED BY <1>1, <1>3, <1>4

(* Every step keeps the invariant. *)
LEMMA ClientNextInv == ClientInv /\ [ClientNext]_clientVars => ClientInv'
<1> SUFFICES ASSUME ClientInv, [ClientNext]_clientVars PROVE ClientInv'
  OBVIOUS
<1>1. CASE \E id \in Ids : VisitConnected(id)
  BY <1>1, VisitConnectedInv
<1>2. CASE \E id \in Ids : VisitDisConnected(id)
  BY <1>2, VisitDisConnectedInv
<1>3. CASE \/ \E id \in Ids : mObjectCurIter = id /\ VisitReconnect(id)
           \/ ProcessAddNetConnect
  BY <1>3, DialInv
<1>4. CASE \/ ExecuteBegins
           \/ \E id \in Ids : \/ VisitDisconnect(id) \/ VisitReconnectWaits(id) \/ VisitQuiet(id)
           \/ \E ids \in Lists : VisitMasterMessage(ids)
           \/ \E id \in Ids : PeerHangsUp(id)
           \/ Tick
           \/ UNCHANGED clientVars
  BY <1>4, OtherStepsInv
<1> QED BY <1>1, <1>2, <1>3, <1>4 DEF ClientNext, Visit

(* The types of the client's tables and timers, and the agreement of each  *)
(* connection's state with its socket (NFNetClientModule.cpp).             *)
THEOREM ClientTypeCorrect == ClientSpec => []ClientTypeOK
<1>1. ClientInv => ClientTypeOK
  BY DEF ClientInv
<1> QED BY <1>1, ClientInitInv, ClientNextInv, PTL DEF ClientSpec

(* GetServerNetInfo finds, for every descriptor an event or a message may  *)
(* come from, the server it came from, although ended connections keep     *)
(* their objects and descriptors are used again.                           *)
THEOREM SocketsLeadHome == ClientSpec => []SockLeadsToItsServer
<1>1. ClientInv => SockLeadsToItsServer
  <2> SUFFICES ASSUME ClientInv, NEW id \in Ids, HasObject(id)
               PROVE  GetServerNetInfo(realFD[id]) = id
    BY DEF SockLeadsToItsServer
  <2> DEFINE found == {i \in Known : GetNetObject(i, realFD[id])}
  <2>1. id \in Known /\ realFD[id] # NoFd
    BY DEF ClientInv, ClientTypeOK, HasObject, Known
  <2>2. found = {id}
    BY <2>1 DEF ClientInv, DistinctSockets, GetNetObject, Known
  <2>3. id <= id
    BY HashRingAssumption
  <2>4. FirstOf({id}) = id
    BY <2>3 DEF FirstOf
  <2> QED BY <2>2, <2>4 DEF GetServerNetInfo
<1> QED BY <1>1, ClientInitInv, ClientNextInv, PTL DEF ClientSpec

(* Routing by any key reaches a connected server of the type, or nobody if *)
(* there is none, whatever joined and left and whatever hash values are    *)
(* shared.                                                                 *)
THEOREM RoutingReachesNormal == ClientSpec => []SuitLeadsToNormal
<1>1. ClientInv => SuitLeadsToNormal
  <2> SUFFICES ASSUME ClientInv, NEW t \in Types, NEW key \in Keys
               PROVE  LET id == GetElementBySuit(mxEServerTypeMap[t], key) IN
                      IF NormalOf(t) = {} THEN id = NoNode
                      ELSE id \in NormalOf(t) /\ socket[id] = "up"
    BY DEF SuitLeadsToNormal
  <2>1. GoodRing(mxEServerTypeMap[t], NormalOf(t)) /\ NormalOf(t) \subseteq Ids /\ key \in Nat
    BY NetClientAssumption DEF ClientInv, RingsInv, NormalOf
  <2>2. \A id \in NormalOf(t) : socket[id] = "up"
    BY DEF ClientInv, UpIsNormal, NormalOf
  <2> QED BY <2>1, <2>2, SuitIsMember
<1> QED BY <1>1, ClientInitInv, ClientNextInv, PTL DEF ClientSpec

-----------------------------------------------------------------------------
(* What consistent hashing is for: when the servers of a type change, a key  *)
(* is led elsewhere only to the server that came, or because it landed on a  *)
(* hash value of the one that left (another server's point at that value is  *)
(* erased as well).                                                          *)
KeysMoveForAReason ==
    [][\A t \in Types, key \in Keys :
         LET before == GetElementBySuit(mxEServerTypeMap[t], key)
             after  == GetElementBySuit(mxEServerTypeMap[t]', key)
         IN  after # before =>
               \/ after \in NormalOf(t)' \ NormalOf(t)
               \/ \E id \in NormalOf(t) \ NormalOf(t)' :
                    PointOf(DOMAIN mxEServerTypeMap[t].mxNodes, key) \in Points(id)]_clientVars

LEMMA SuitAtPoint ==
    ASSUME NEW ring, NEW normal, normal \subseteq Ids, GoodRing(ring, normal), NEW key \in Nat
    PROVE  LET all == DOMAIN ring.mxNodes IN
           /\ all \subseteq Nat
           /\ normal # {} => all # {}
           /\ all # {} => /\ PointOf(all, key) \in all
                          /\ GetElementBySuit(ring, key) = ring.mxNodes[PointOf(all, key)]
<1> DEFINE all == DOMAIN ring.mxNodes
<1>1. all \subseteq Nat /\ (normal # {} => all # {})
  BY PrivatePointsAssumption DEF GoodRing
<1>2. ASSUME all # {} PROVE PointOf(all, key) \in all
  BY <1>1, <1>2, PointExists
<1>3. ASSUME all # {} PROVE GetSuitNode(ring, key) = ring.mxNodes[PointOf(all, key)]
  BY <1>3 DEF GetSuitNode, PointOf
<1>4. ASSUME all # {} PROVE GetElementBySuit(ring, key) = ring.mxNodes[PointOf(all, key)]
  <2>1. ring.mxNodes[PointOf(all, key)] \in ring.members
    BY <1>2, <1>4 DEF GoodRing
  <2> QED BY <1>3, <1>4, <2>1 DEF GetElementBySuit
<1> QED BY <1>1, <1>2, <1>4

(* A server that joins takes keys for itself and moves none between others. *)
LEMMA JoinTakes ==
    ASSUME NEW ring, NEW normal, normal \subseteq Ids, NEW id \in Ids, GoodRing(ring, normal),
           NEW key \in Nat
    PROVE  \/ GetElementBySuit(AddElement(ring, id), key) = GetElementBySuit(ring, key)
           \/ id \notin normal /\ GetElementBySuit(AddElement(ring, id), key) = id
<1>1. CASE id \in normal
  BY <1>1 DEF AddElement, GoodRing
<1>2. CASE id \notin normal
  <2> DEFINE new == AddElement(ring, id)
             few == DOMAIN ring.mxNodes
             many == DOMAIN new.mxNodes
             q == PointOf(many, key)
  <2>1. /\ many = few \cup Points(id)
        /\ \A h \in many : new.mxNodes[h] = IF h \in few THEN ring.mxNodes[h] ELSE id
    BY <1>2 DEF AddElement, GoodRing
  <2>2. GoodRing(new, normal \cup {id}) /\ normal \cup {id} \subseteq Ids
    BY AddElementGood
  <2> HIDE DEF new
  <2>3. many \subseteq Nat /\ q \in many /\ GetElementBySuit(new, key) = new.mxNodes[q]
    BY <2>2, SuitAtPoint
  <2>4. CASE q \in few
    <3>1. few # {} /\ few \subseteq many
      BY <2>1, <2>4
    <3>2. PointOf(few, key) = q
      BY <2>3, <2>4, <3>1, PointStays
    <3>3. GetElementBySuit(ring, key) = ring.mxNodes[q]
      BY <3>1, <3>2, SuitAtPoint
    <3> QED BY <2>1, <2>3, <2>4, <3>3 DEF new
  <2>5. CASE q \notin few
    BY <1>2, <2>1, <2>3, <2>5 DEF new
  <2> QED BY <2>4, <2>5
<1> QED BY <1>1, <1>2

(* A server that leaves gives away the keys at its hash values only. *)
LEMMA LeaveGives ==
    ASSUME NEW ring, NEW normal, normal \subseteq Ids, NEW id \in Ids, GoodRing(ring, normal),
           NEW key \in Nat
    PROVE  \/ GetElementBySuit(RemoveElement(ring, id), key) = GetElementBySuit(ring, key)
           \/ id \in normal /\ PointOf(DOMAIN ring.mxNodes, key) \in Points(id)
<1>1. CASE id \notin normal
  BY <1>1 DEF RemoveElement, GoodRing
<1>2. CASE id \in normal
  <2> DEFINE new == RemoveElement(ring, id)
             many == DOMAIN ring.mxNodes
             few == DOMAIN new.mxNodes
             q == PointOf(many, key)
  <2>1. few = many \ Points(id) /\ \A h \in few : new.mxNodes[h] = ring.mxNodes[h]
    BY <1>2 DEF RemoveElement, GoodRing
  <2>2. GoodRing(new, normal \ {id}) /\ normal \ {id} \subseteq Ids
    BY RemoveElementGood
  <2> HIDE DEF new
  <2>3. many \subseteq Nat /\ q \in many /\ GetElementBySuit(ring, key) = ring.mxNodes[q]
    BY <1>2, SuitAtPoint
  <2>4. CASE q \notin Points(id)
    <3>1. q \in few /\ few # {} /\ few \subseteq many
      BY <2>1, <2>3, <2>4
    <3>2. PointOf(few, key) = q
      BY <2>3, <3>1, PointStays
    <3>3. GetElementBySuit(new, key) = new.mxNodes[q]
      BY <2>2, <3>1, <3>2, SuitAtPoint
    <3> QED BY <2>1, <2>3, <3>1, <3>3 DEF new
  <2> QED BY <1>2, <2>4
<1> QED BY <1>1, <1>2

(* Whatever connections come up and end: no message routed by a key changes *)
(* its server for any other reason (AddElement, RemoveElement,              *)
(* GetElementBySuit of NFConsistentHashMapEx).                              *)
THEOREM RoutesAreConsistent == ClientSpec => KeysMoveForAReason
<1> DEFINE Step == \A t \in Types, key \in Keys :
             LET before == GetElementBySuit(mxEServerTypeMap[t], key)
                 after  == GetElementBySuit(mxEServerTypeMap[t]', key)
             IN  after # before =>
                   \/ after \in NormalOf(t)' \ NormalOf(t)
                   \/ \E id \in NormalOf(t) \ NormalOf(t)' :
                        PointOf(DOMAIN mxEServerTypeMap[t].mxNodes, key) \in Points(id)
<1>1. ClientInv /\ [ClientNext]_clientVars => Step
  <2> SUFFICES ASSUME ClientInv, [ClientNext]_clientVars, NEW t \in Types, NEW key \in Keys,
                      GetElementBySuit(mxEServerTypeMap[t]', key) # GetElementBySuit(mxEServerTypeMap[t], key)
               PROVE  \/ GetElementBySuit(mxEServerTypeMap[t]', key) \in NormalOf(t)' \ NormalOf(t)
                      \/ \E id \in NormalOf(t) \ NormalOf(t)' :
                           PointOf(DOMAIN mxEServerTypeMap[t].mxNodes, key) \in Points(id)
    BY Zenon
  <2>0. /\ GoodRing(mxEServerTypeMap[t], NormalOf(t)) /\ NormalOf(t) \subseteq Ids /\ key \in Nat
        /\ mxEServerTypeMap'[t] # mxEServerTypeMap[t]
    BY NetClientAssumption DEF ClientInv, RingsInv, NormalOf
  <2>1. PICK id \in Ids : VisitConnected(id) \/ VisitDisConnected(id)
    <3>1. mxEServerTypeMap' # mxEServerTypeMap
      BY <2>0
    <3> QED BY <3>1 DEF ClientNext, Visit, ExecuteBegins, VisitDisconnect, VisitReconnectWaits,
                VisitReconnect, VisitQuiet, VisitMasterMessage, ProcessAddNetConnect,
                PeerHangsUp, Tick, clientVars
  <2>2. CASE VisitConnected(id)
    <3>1. /\ mInitCalled /\ t = TypeOf[id]
          /\ mxEServerTypeMap'[t] = AddElement(mxEServerTypeMap[t], id)
          /\ eState' = [eState EXCEPT ![id] = "NORMAL"]
      BY <2>0, <2>2 DEF VisitConnected, OnConnected, ClientInv, ClientTypeOK
    <3>2. id \in NormalOf(t)'
      BY <3>1 DEF NormalOf, ClientInv, ClientTypeOK
    <3>3. id \notin NormalOf(t) /\ GetElementBySuit(mxEServerTypeMap'[t], key) = id
      BY <2>0, <3>1, JoinTakes
    <3> QED BY <3>2, <3>3
  <2>3. CASE VisitDisConnected(id)
    <3>1. /\ mInitCalled /\ t = TypeOf[id]
          /\ mxEServerTypeMap'[t] = RemoveElement(mxEServerTypeMap[t], id)
          /\ eState' = [eState EXCEPT ![id] = "DISCONNECT"]
      BY <2>0, <2>3 DEF VisitDisConnected, OnDisConnected, ClientInv, ClientTypeOK
    <3>2. id \notin NormalOf(t)'
      BY <3>1 DEF NormalOf, ClientInv, ClientTypeOK
    <3>3. id \in NormalOf(t) /\ PointOf(DOMAIN mxEServerTypeMap[t].mxNodes, key) \in Points(id)
      BY <2>0, <3>1, LeaveGives
    <3> QED BY <3>2, <3>3
  <2> QED BY <2>1, <2>2, <2>3
<1>2. ClientInv /\ [ClientNext]_clientVars => [Step]_clientVars
  BY <1>1
<1> QED BY <1>2, ClientInitInv, ClientNextInv, PTL DEF ClientSpec, KeysMoveForAReason
-----------------------------------------------------------------------------
(* Which connections are given up for good, and that no other is.          *)

(* A connect() that failed at once, which no event follows; and, in a      *)
(* server that never called Init, a connection that has ended.             *)
Stuck(id) == socket[id] = "failed" \/ (socket[id] = "closed" /\ ~mInitCalled)

StuckForEver ==
    [][\A id \in Ids : Stuck(id) => Stuck(id)' /\ eState'[id] = "CONNECTING"]_clientVars

(* Every other known server is connected, waits for the event of its       *)
(* socket, or is on its way to a redial; and one whose peer hung up is in  *)
(* a state whose visit delivers the event.                                 *)
OthersGoOn ==
    /\ \A id \in Known :
         Stuck(id) \/ socket[id] \in {"dialing", "up"} \/ eState[id] \in {"DISCONNECT", "RECONNECT"}
    /\ \A id \in lost : eState[id] \in {"CONNECTING", "NORMAL"} /\ ~ Stuck(id)

(* The walk of Execute leaves no state for good but those two.             *)
THEOREM OnlyTwoDeadEnds == ClientSpec => []OthersGoOn /\ StuckForEver
<1> DEFINE Step == \A id \in Ids : Stuck(id) => Stuck(id)' /\ eState'[id] = "CONNECTING"
<1>1. ClientInv => OthersGoOn
  BY DEF ClientInv, ClientTypeOK, UpIsNormal, OthersGoOn, Stuck, Known
<1>2. ClientInv /\ [ClientNext]_clientVars => [Step]_clientVars
  <2> SUFFICES ASSUME ClientInv, ClientNext, NEW id \in Ids, Stuck(id)
               PROVE  Stuck(id)' /\ eState'[id] = "CONNECTING"
    OBVIOUS
  <2>1. /\ eState[id] = "CONNECTING" /\ socket[id] \in {"failed", "closed"}
        /\ id \notin lost /\ id \in Known
        /\ socket \in [Ids -> {"none", "failed", "dialing", "up", "closed"}]
        /\ eState \in [Ids -> {"UNKNOWN", "DISCONNECT", "CONNECTING", "NORMAL", "RECONNECT"}]
    BY DEF ClientInv, ClientTypeOK, UpIsNormal, Stuck, Known
  <2> SUFFICES mInitCalled' = mInitCalled /\ socket'[id] = socket[id] /\ eState'[id] = eState[id]
    BY <2>1 DEF Stuck
  <2>2. ASSUME NEW other \in Ids, Visit(other)
        PROVE  mInitCalled' = mInitCalled /\ socket'[id] = socket[id] /\ eState'[id] = eState[id]
    <3>1. CASE VisitDisconnect(other)
      BY <2>1, <3>1 DEF VisitDisconnect, DropModule
    <3>2. CASE VisitReconnect(other)
      BY <2>1, <3>2 DEF VisitReconnect, NewModules
    <3>3. CASE VisitConnected(other)
      BY <2>1, <3>3 DEF VisitConnected, OnConnected
    <3>4. CASE VisitDisConnected(other)
      BY <2>1, <3>4 DEF VisitDisConnected, OnDisConnected
    <3>5. CASE VisitReconnectWaits(other) \/ VisitQuiet(other)
      BY <3>5 DEF VisitReconnectWaits, VisitQuiet
    <3> QED BY <2>2, <3>1, <3>2, <3>3, <3>4, <3>5 DEF Visit
  <2>3. CASE ProcessAddNetConnect
    BY <2>1, <2>3 DEF ProcessAddNetConnect, NewModules
  <2> QED BY <2>2, <2>3 DEF ClientNext, ExecuteBegins, VisitMasterMessage, PeerHangsUp, Tick
<1> QED BY <1>1, <1>2, ClientInitInv, ClientNextInv, PTL DEF ClientSpec, StuckForEver
=============================================================================

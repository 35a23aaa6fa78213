-------------------------------- MODULE NFNet --------------------------------
(***************************************************************************)
(* The connection table of a listening NFNet (src/Common/NFComm/           *)
(* NFNetPlugin/NFNet.cpp): the map mmObject from descriptors to NetObjects,*)
(* the list mvRemoveObject of descriptors whose close is deferred to the   *)
(* next Execute, and the descriptors the kernel has handed to the process. *)
(*                                                                         *)
(* One thread drives an NFNet: Execute closes what is queued, then runs    *)
(* one non-blocking pass of the event loop, in which libevent calls        *)
(* listener_cb and conn_eventcb.  Every callback is therefore one step;    *)
(* what interleaves is the order of the callbacks of a pass, the peers     *)
(* that hang up at any time, and the kernel that reuses a descriptor as    *)
(* soon as it is closed.                                                   *)
(*                                                                         *)
(* A NetObject is named by an identity of its own, never reused, so that a *)
(* pointer kept by somebody else after `delete` can be told from a pointer *)
(* to the object that took over the descriptor.                            *)
(***************************************************************************)
EXTENDS Integers, FiniteSets

CONSTANTS
    FDs,            \* descriptors the kernel may return
    NoFd,           \* the descriptor of a NetObject not created yet
    Objs,           \* identities of NetObjects (bounds how many are created)
    MaxConnect,     \* mnMaxConnect
    Events          \* what libevent may report when a connection ends

Sides  == {"READING", "WRITING"}
Causes == {"EOF", "ERROR", "TIMEOUT"}

ASSUME NFNetAssumption ==
    /\ IsFiniteSet(FDs)
    /\ NoFd \notin FDs
    /\ MaxConnect \in Nat
    /\ \A ev \in Events : ev \subseteq (Sides \cup Causes) /\ ev \cap Causes # {}

VARIABLES
    mmObject,       \* descriptor -> NetObject
    mvRemoveObject, \* descriptors queued for ExecuteClose
    objState,       \* "new" before `new NetObject`, "live", "freed" after delete
    objFd,          \* NetObject::nFD
    needRemove,     \* the NetObjects with bNeedRemove set
    mbWorking,      \* NFNet::mbWorking
    fdOpen,         \* descriptors the process holds open (kernel)
    armed,          \* sides on which a bufferevent may still raise an event (libevent)
    peerGone,       \* NetObjects whose peer has hung up (network)
    phase           \* "idle" between two Executes, "loop" inside event_base_loop

netVars == <<mmObject, mvRemoveObject, objState, objFd, needRemove, mbWorking,
             fdOpen, armed, peerGone, phase>>

Live == {o \in Objs : objState[o] = "live"}

NetInit ==
    /\ mmObject = [fd \in {} |-> CHOOSE o \in Objs : TRUE]
    /\ mvRemoveObject = {}
    /\ objState = [o \in Objs |-> "new"]
    /\ objFd = [o \in Objs |-> NoFd]
    /\ needRemove = {}
    /\ mbWorking = FALSE
    /\ fdOpen = {}
    /\ armed = [o \in Objs |-> {}]
    /\ peerGone = {}
    /\ phase = "idle"

-----------------------------------------------------------------------------
(* CloseNetObject: mark the object and queue its descriptor.  The vector   *)
(* may hold a descriptor twice; the second CloseObject of an ExecuteClose  *)
(* finds nothing, so a set loses nothing.                                  *)
CloseNetObject_QueueOnly(fd) ==     \* slip: SetNeedRemove(true) is missing
    /\ mvRemoveObject' = mvRemoveObject \cup ({fd} \cap DOMAIN mmObject)
    /\ UNCHANGED needRemove

CloseNetObject_MarkOnly(fd) ==      \* slip: mvRemoveObject.push_back is missing
    /\ needRemove' = needRemove \cup {mmObject[f] : f \in {fd} \cap DOMAIN mmObject}
    /\ UNCHANGED mvRemoveObject

CloseNetObject(fd) ==
    IF fd \in DOMAIN mmObject
    THEN /\ needRemove' = needRemove \cup {mmObject[fd]}
         /\ mvRemoveObject' = mvRemoveObject \cup {fd}
    ELSE UNCHANGED <<needRemove, mvRemoveObject>>

(* bufferevent_free, erase and delete for every key in fds.  The           *)
(* bufferevent owns the descriptor (BEV_OPT_CLOSE_ON_FREE).                *)
CloseObject_NoErase(fds) ==         \* slip: mmObject.erase is missing
    LET gone == {mmObject[fd] : fd \in fds \cap DOMAIN mmObject}
    IN  /\ objState' = [o \in Objs |-> IF o \in gone THEN "freed" ELSE objState[o]]
        /\ armed' = [o \in Objs |-> IF o \in gone THEN {} ELSE armed[o]]
        /\ fdOpen' = fdOpen \ (fds \cap DOMAIN mmObject)
        /\ UNCHANGED mmObject

CloseObject(fds) ==
    LET gone == {mmObject[fd] : fd \in fds \cap DOMAIN mmObject}
    IN  /\ mmObject' = [fd \in DOMAIN mmObject \ fds |-> mmObject[fd]]
        /\ objState' = [o \in Objs |-> IF o \in gone THEN "freed" ELSE objState[o]]
        /\ armed' = [o \in Objs |-> IF o \in gone THEN {} ELSE armed[o]]
        /\ fdOpen' = fdOpen \ (fds \cap DOMAIN mmObject)

ExecuteClose_KeepsQueue ==          \* slip: mvRemoveObject.clear() is missing
    CloseObject(mvRemoveObject) /\ UNCHANGED mvRemoveObject

ExecuteClose ==
    /\ CloseObject(mvRemoveObject)
    /\ mvRemoveObject' = {}

(* NFNet::Execute up to the call of event_base_loop. *)
Execute ==
    /\ phase = "idle"
    /\ phase' = "loop"
    /\ ExecuteClose
    /\ UNCHANGED <<objFd, needRemove, mbWorking, peerGone>>

(* event_base_loop(EVLOOP_ONCE | EVLOOP_NONBLOCK) returns. *)
ExecuteReturns ==
    /\ phase = "loop"
    /\ phase' = "idle"
    /\ UNCHANGED <<mmObject, mvRemoveObject, objState, objFd, needRemove, mbWorking,
                   fdOpen, armed, peerGone>>

(* listener_cb for a descriptor the kernel has just opened, when it builds *)
(* a NetObject; mEventCB(CONNECTED) is the caller's business.              *)
Accepts_OneMore(fd) ==              \* slip: > for >= in the test of mnMaxConnect
    fd \notin DOMAIN mmObject /\ Cardinality(DOMAIN mmObject) <= MaxConnect

Accepts(fd) ==
    fd \notin DOMAIN mmObject /\ Cardinality(DOMAIN mmObject) < MaxConnect

(* new NetObject(pNet, fd, *pSin, bev), with its bufferevent enabled. *)
NewNetObject_NoFd(fd, o) ==         \* slip: the constructor leaves nFD unset
    /\ objState' = [objState EXCEPT ![o] = "live"]
    /\ armed' = [armed EXCEPT ![o] = Sides]
    /\ UNCHANGED objFd

NewNetObject(fd, o) ==
    /\ objState' = [objState EXCEPT ![o] = "live"]
    /\ objFd' = [objFd EXCEPT ![o] = fd]
    /\ armed' = [armed EXCEPT ![o] = Sides]

ListenerCb(fd, o) ==
    /\ phase = "loop"
    /\ fd \notin fdOpen
    /\ objState[o] = "new"
    /\ fdOpen' = fdOpen \cup {fd}
    /\ Accepts(fd)
    /\ mmObject' = [f \in DOMAIN mmObject \cup {fd} |-> IF f = fd THEN o ELSE mmObject[f]]
    /\ NewNetObject(fd, o)
    /\ mbWorking' = TRUE
    /\ UNCHANGED <<mvRemoveObject, needRemove, peerGone, phase>>

(* listener_cb when it returns early: an object already sits under the     *)
(* descriptor, or the table is full.  The accepted descriptor is not       *)
(* closed: it belongs to nobody from here on.                              *)
ListenerCbReturns(fd) ==
    /\ phase = "loop"
    /\ fd \notin fdOpen
    /\ ~Accepts(fd)
    /\ fdOpen' = fdOpen \cup {fd}
    /\ CloseNetObject(fd)
    /\ UNCHANGED <<mmObject, objState, objFd, mbWorking, armed, peerGone, phase>>

(* conn_eventcb for a connection that ends.  libevent stops the side that  *)
(* raised the event; the other side may still raise one in the same pass.  *)
ConnEventCb(o, ev) ==
    /\ phase = "loop"
    /\ objState[o] = "live"
    /\ o \in peerGone
    /\ armed[o] # {} /\ ev \cap Sides \subseteq armed[o]
    /\ armed' = [armed EXCEPT ![o] = IF ev \cap Sides = {} THEN {} ELSE @ \ ev]
    /\ CloseNetObject(objFd[o])
    /\ UNCHANGED <<mmObject, objState, objFd, mbWorking, fdOpen, peerGone, phase>>

(* NFNet::CloseNetObject called by the owner of the NFNet. *)
Kick(fd) ==
    /\ fd \in DOMAIN mmObject
    /\ CloseNetObject(fd)
    /\ UNCHANGED <<mmObject, objState, objFd, mbWorking, fdOpen, armed, peerGone, phase>>

(* KickAll / CloseSocketAll, called outside the event loop. *)
KickAll ==
    /\ phase = "idle"
    /\ DOMAIN mmObject # {}
    /\ CloseObject(DOMAIN mmObject \cup mvRemoveObject)
    /\ mvRemoveObject' = {}
    /\ UNCHANGED <<objFd, needRemove, mbWorking, peerGone, phase>>

(* The peer of a connection hangs up, at any time. *)
PeerCloses(o) ==
    /\ objState[o] = "live"
    /\ o \notin peerGone
    /\ peerGone' = peerGone \cup {o}
    /\ UNCHANGED <<mmObject, mvRemoveObject, objState, objFd, needRemove, mbWorking,
                   fdOpen, armed, phase>>

NetNext ==
    \/ Execute
    \/ ExecuteReturns
    \/ \E fd \in FDs, o \in Objs : ListenerCb(fd, o)
    \/ \E fd \in FDs : ListenerCbReturns(fd)
    \/ \E o \in Objs, ev \in Events : ConnEventCb(o, ev)
    \/ \E fd \in FDs : Kick(fd)
    \/ KickAll
    \/ \E o \in Objs : PeerCloses(o)

NetSpec == NetInit /\ [][NetNext]_netVars

(* The server thread calls Execute for ever, event_base_loop returns, and  *)
(* the poll of every pass reports a descriptor whose peer is gone, so such *)
(* a connection cannot be passed over in infinitely many passes.           *)
NetFairness ==
    /\ WF_netVars(Execute)
    /\ WF_netVars(ExecuteReturns)
    /\ \A o \in Objs : SF_netVars(\E ev \in Events : ConnEventCb(o, ev))

NetFairSpec == NetSpec /\ NetFairness

-----------------------------------------------------------------------------
(* Types; an object has a descriptor from its construction on. *)
NetTypeOK ==
    /\ mmObject \in UNION {[D -> Objs] : D \in SUBSET FDs}
    /\ mvRemoveObject \subseteq FDs
    /\ objState \in [Objs -> {"new", "live", "freed"}]
    /\ objFd \in [Objs -> FDs \cup {NoFd}]
    /\ needRemove \subseteq Objs
    /\ mbWorking \in BOOLEAN
    /\ fdOpen \subseteq FDs
    /\ armed \in [Objs -> SUBSET Sides]
    /\ peerGone \subseteq Objs
    /\ phase \in {"idle", "loop"}
    /\ \A o \in Objs : objFd[o] = NoFd <=> objState[o] = "new"

(* The table and the heap agree: the keys of mmObject are open             *)
(* descriptors, each leads to a live NetObject that knows itself under     *)
(* that descriptor, and no live NetObject is missing from the table (an    *)
(* object outside the table would never be closed nor deleted).            *)
TableMatchesHeap ==
    /\ \A fd \in DOMAIN mmObject :
         /\ fd \in fdOpen
         /\ objState[mmObject[fd]] = "live"
         /\ objFd[mmObject[fd]] = fd
    /\ \A o \in Live : objFd[o] \in DOMAIN mmObject /\ mmObject[objFd[o]] = o

(* A descriptor queued for closing still belongs to the object that was    *)
(* marked when it was queued, and every marked object that still lives is  *)
(* queued: the deferred close can neither hit a connection that reused the *)
(* descriptor nor be forgotten.                                            *)
RemovalsMatchMarks ==
    /\ \A fd \in mvRemoveObject : fd \in DOMAIN mmObject /\ mmObject[fd] \in needRemove
    /\ \A o \in Live \cap needRemove : objFd[o] \in mvRemoveObject

(* The table never exceeds mnMaxConnect, closes being deferred or not. *)
WithinMaxConnect == Cardinality(DOMAIN mmObject) <= MaxConnect

(* Outside KickAll, no step frees a NetObject that was not marked before:  *)
(* a connection goes away only after its event or a kick, never because a  *)
(* former owner of its descriptor was queued.                              *)
FreedOnlyIfMarked ==
    [][ (\E o \in Live \ needRemove : objState'[o] = "freed")
        => DOMAIN mmObject' = {} /\ phase = "idle" /\ phase' = "idle" ]_netVars

(* A connection whose peer has hung up is closed and its NetObject is      *)
(* deleted: the event, the deferred close and the next Execute between     *)
(* them lose no connection.                                                *)
HungUpIsFreed ==
    \A o \in Objs : (objState[o] = "live" /\ o \in peerGone) ~> (objState[o] = "freed")
=============================================================================

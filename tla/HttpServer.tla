------------------------------ MODULE HttpServer ------------------------------
(* NFHttpServer and NFHttpServerModule: the pool of NFHttpRequest objects, the *)
(* callback that libevent runs for each request, the filters and the handlers  *)
(* an application registers, and the answers, given at once or later.          *)
(* No server of the repository registers a handler: the application is the     *)
(* environment here, and what its callbacks may do is in FilterResults and     *)
(* HandlerResults.  A reply takes the evhttp_request from the object's req at  *)
(* the time of the reply.  Reset does not touch req, so it is not shown.       *)
EXTENDS Integers, Sequences, FiniteSets, SequencesExt

CONSTANTS Requests,     \* the evhttp_requests of libevent, each arriving once
          Types,        \* the NFHttpTypes used
          Paths,        \* the paths used
          Shapes,       \* the shapes of the requests that arrive
          PoolGrowth,   \* the objects made when the pool is empty: 100
          NoRequest     \* not one of Requests: a req never written

ASSUME HttpAssumption ==
  /\ IsFiniteSet(Requests)
  /\ NoRequest \notin Requests
  /\ PoolGrowth \in Nat \ {0}
  /\ Shapes \subseteq {"whole", "unreadable", "noBuffer"}

Unset == "unset"                                \* no callback registered
FilterResults  == {"ok", "refuse", "throw"}
HandlerResults == {"now", "later", "throw", "answerAndThrow", "keepAndThrow"}

VARIABLES mMsgCBMap,          \* <<type, path>> -> what the handler does
          mMsgFliterMap,      \* path -> what the filter does
          mIndex,             \* the last id given to an NFHttpRequest
          mxHttpRequestPool,  \* the list of ids of free objects
          req,                \* id -> the evhttp_request it points to
          held,               \* the <<request, id>> a deferring handler keeps
          arrived,            \* the requests listener_cb was called for
          answers             \* request -> the replies sent on it

vars == <<mMsgCBMap, mMsgFliterMap, mIndex, mxHttpRequestPool, req, held,
          arrived, answers>>

MaxIndex == PoolGrowth * Cardinality(Requests)  \* no run can create more
mxHttpRequestMap == 1 .. mIndex                 \* every object ever created

HttpInit ==
  /\ mMsgCBMap = [k \in Types \X Paths |-> Unset]
  /\ mMsgFliterMap = [p \in Paths |-> Unset]
  /\ mIndex = 0 /\ mxHttpRequestPool = <<>>
  /\ req = [i \in 1 .. MaxIndex |-> NoRequest]
  /\ held = {} /\ arrived = {}
  /\ answers = [r \in Requests |-> 0]

-----------------------------------------------------------------------------
(* Registration: the first callback of a key stays. *)

AddMsgCB(t, p, h) ==
  /\ mMsgCBMap[<<t, p>>] = Unset
  /\ mMsgCBMap' = [mMsgCBMap EXCEPT ![<<t, p>>] = h]
  /\ UNCHANGED <<mMsgFliterMap, mIndex, mxHttpRequestPool, req, held, arrived, answers>>

AddFilterCB(p, f) ==
  /\ mMsgFliterMap[p] = Unset
  /\ mMsgFliterMap' = [mMsgFliterMap EXCEPT ![p] = f]
  /\ UNCHANGED <<mMsgCBMap, mIndex, mxHttpRequestPool, req, held, arrived, answers>>

-----------------------------------------------------------------------------
(* What one call of a callback adds up to: the objects pushed back to the pool, *)
(* the replies sent, and 1 if a handler keeps the object for later.             *)

Effect(pushes, replies, keeps) == [pushes |-> pushes, replies |-> replies, keeps |-> keeps]
ResponseMsg == Effect(1, 1, 0)              \* one reply, one push_back

Then(e, f) == Effect(e.pushes + f.pushes, e.replies + f.replies, e.keeps + f.keeps)

(* A handler answers, keeps the object, or throws, before or after answering   *)
(* or keeping it: every exception is answered again.  An unknown type or path  *)
(* is answered.                                                                *)
OnReceiveNetPack(h) ==
  CASE h = "later"            -> Effect(0, 0, 1)
    [] h = "keepAndThrow"     -> Then(Effect(0, 0, 1), ResponseMsg)
    [] h = "answerAndThrow"   -> Then(ResponseMsg, ResponseMsg)
    [] h \in {"now", "throw", Unset} -> ResponseMsg

OnFilterPack(f) == IF f = Unset THEN "ok" ELSE f

\* slip: a refused request is given back to the pool and nobody answers it
Served_RefusesSilently(f, h) ==
  CASE OnFilterPack(f) = "refuse" -> Effect(1, 0, 0)
    [] OnFilterPack(f) = "throw"  -> Then(ResponseMsg, OnReceiveNetPack(h))
    [] OnFilterPack(f) = "ok"     -> OnReceiveNetPack(h)

(* The filter's refusal pushes the object back and then answers through         *)
(* ResponseMsg, which pushes it back again; its exception is answered and does  *)
(* not keep the handler from being called.                                      *)
Served(f, h) ==
  CASE OnFilterPack(f) = "refuse" -> Then(Effect(1, 0, 0), ResponseMsg)
    [] OnFilterPack(f) = "throw"  -> Then(ResponseMsg, OnReceiveNetPack(h))
    [] OnFilterPack(f) = "ok"     -> OnReceiveNetPack(h)

(* A request without headers, uri or a path that parses is pushed back and      *)
(* answered with an error; one without an input buffer is pushed back only.     *)
Handled(shape, f, h) ==
  CASE shape = "unreadable" -> Effect(1, 1, 0)
    [] shape = "noBuffer"   -> Effect(1, 0, 0)
    [] shape = "whole"      -> Served(f, h)

-----------------------------------------------------------------------------
\* slip: the id is not counted up for the objects of a later batch
NextIndex_Stays == IF mxHttpRequestPool = <<>> /\ mIndex = 0 THEN PoolGrowth ELSE mIndex

(* An empty pool is filled with new objects, which stay in the map. *)
NextIndex == IF mxHttpRequestPool = <<>> THEN mIndex + PoolGrowth ELSE mIndex
Filled == IF mxHttpRequestPool = <<>>
            THEN [k \in 1 .. PoolGrowth |-> mIndex + k] ELSE mxHttpRequestPool

\* slip: the object handed out stays in the pool when it is the last one
Remaining_KeepsLast == IF Len(Filled) = 1 THEN Filled ELSE Tail(Filled)

Remaining == Tail(Filled)

(* listener_cb: take an object, let it point to the request, run the filter and *)
(* the handler.                                                                 *)
ListenerCb(r, t, p, shape) ==
  LET id == Head(Filled)
      e  == Handled(shape, mMsgFliterMap[p], mMsgCBMap[<<t, p>>])
  IN /\ r \notin arrived
     /\ arrived' = arrived \cup {r}
     /\ mIndex' = NextIndex
     /\ req' = [req EXCEPT ![id] = r]
     /\ mxHttpRequestPool' = Remaining \o [k \in 1 .. e.pushes |-> id]
     /\ answers' = [answers EXCEPT ![r] = @ + e.replies]
     /\ held' = IF e.keeps = 1 THEN held \cup {<<r, id>>} ELSE held
     /\ UNCHANGED <<mMsgCBMap, mMsgFliterMap>>

(* A handler that kept an object answers through NFHttpServerModule::ResponseMsg: *)
(* the reply goes to the request the object points to now.                        *)
AnswerLater(r, id) ==
  /\ <<r, id>> \in held
  /\ held' = held \ {<<r, id>>}
  /\ answers' = [answers EXCEPT ![req[id]] = @ + 1]
  /\ mxHttpRequestPool' = Append(mxHttpRequestPool, id)
  /\ UNCHANGED <<mMsgCBMap, mMsgFliterMap, mIndex, req, arrived>>

HttpNext ==
  \/ \E t \in Types, p \in Paths, h \in HandlerResults : AddMsgCB(t, p, h)
  \/ \E p \in Paths, f \in FilterResults : AddFilterCB(p, f)
  \/ \E r \in Requests, t \in Types, p \in Paths, s \in Shapes : ListenerCb(r, t, p, s)
  \/ \E h \in held : AnswerLater(h[1], h[2])

(* A handler that keeps an object answers some day.  The server itself runs    *)
(* only when libevent calls it.                                                *)
HttpSpec ==
  /\ HttpInit /\ [][HttpNext]_vars
  /\ \A r \in Requests : WF_vars(\E id \in 1 .. MaxIndex : AnswerLater(r, id))

-----------------------------------------------------------------------------
(* Properties *)

RegisteredFilters  == {mMsgFliterMap[p] : p \in Paths}
RegisteredHandlers == {mMsgCBMap[k] : k \in Types \X Paths}

(* Callbacks that do not throw where an answer was given or is to come. *)
NobodyAnswersTwice ==
  /\ "throw" \notin RegisteredFilters
  /\ "answerAndThrow" \notin RegisteredHandlers /\ "keepAndThrow" \notin RegisteredHandlers

(* The variables have their types, and the objects in the pool and in the hands *)
(* of handlers are known to GetHttpRequest (AllocHttpRequest).                   *)
HttpTypeOK ==
  /\ mMsgCBMap \in [Types \X Paths -> HandlerResults \cup {Unset}]
  /\ mMsgFliterMap \in [Paths -> FilterResults \cup {Unset}]
  /\ mIndex \in 0 .. MaxIndex
  /\ mxHttpRequestPool \in Seq(mxHttpRequestMap)
  /\ req \in [1 .. MaxIndex -> Requests \cup {NoRequest}]
  /\ held \subseteq arrived \X mxHttpRequestMap
  /\ arrived \subseteq Requests
  /\ answers \in [Requests -> Nat]

(* As long as no filter refuses or throws and no handler throws after it has      *)
(* answered or kept the object, each object is either in the pool, once, or kept *)
(* by one handler and then still points to that handler's request:               *)
(* AllocHttpRequest never hands out an object in use, and none is lost           *)
(* (listener_cb, ResponseMsg).                                                   *)
ObjectsAreNotShared ==
  NobodyAnswersTwice /\ "refuse" \notin RegisteredFilters =>
    /\ IsInjective(mxHttpRequestPool)
    /\ \A h \in held : req[h[2]] = h[1]
    /\ \A i \in mxHttpRequestMap :
         (\E h \in held : h[2] = i) <=> i \notin ToSet(mxHttpRequestPool)

(* Callbacks under which each request gets one answer: nobody answers twice, and *)
(* not both a filter refuses (which shares objects) and a handler defers (which  *)
(* relies on their not being shared).                                            *)
EachAnswersOnce ==
  NobodyAnswersTwice /\ ~ ("refuse" \in RegisteredFilters /\ "later" \in RegisteredHandlers)

Kept(r) == \E h \in held : h[1] = r

(* No request is answered twice, or before it arrived, or while a handler keeps  *)
(* its object for an answer; and one that has arrived is answered or kept: none  *)
(* is forgotten (listener_cb, ResponseMsg).                                      *)
AnsweredOrKept ==
  EachAnswersOnce => \A r \in Requests :
    /\ answers[r] <= 1
    /\ answers[r] = 1 => r \in arrived /\ ~ Kept(r)
    /\ r \in arrived /\ "noBuffer" \notin Shapes => answers[r] = 1 \/ Kept(r)

(* Every request that arrives is in the end answered exactly once, whatever the  *)
(* filters and handlers do, as long as EachAnswersOnce: listener_cb,             *)
(* OnReceiveNetPack, ResponseMsg.                                                *)
AnsweredExactlyOnce ==
  []EachAnswersOnce => \A r \in Requests : (r \in arrived) ~> [](answers[r] = 1)
=============================================================================

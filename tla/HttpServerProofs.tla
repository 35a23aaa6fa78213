--------------------------- MODULE HttpServerProofs ---------------------------
(* Proofs about HttpServer, for any number of requests, types and paths, every  *)
(* growth of the pool and every filter and handler.                             *)
EXTENDS HttpServer, FiniteSetTheorems, SequenceTheorems, TLAPS

(* The pool grows at most once for every request that arrives. *)
GrownByRequests == mIndex <= PoolGrowth * Cardinality(arrived)

(* A request is kept under one object, and only by a handler that defers. *)
SomeoneDefers == "later" \in RegisteredHandlers \/ "keepAndThrow" \in RegisteredHandlers

KeptOnce ==
  /\ \A g, h \in held : g[1] = h[1] => g = h
  /\ held # {} => SomeoneDefers

HttpInv == HttpTypeOK /\ GrownByRequests /\ KeptOnce /\ ObjectsAreNotShared /\ AnsweredOrKept

(* The callbacks ObjectsAreNotShared asks for, and what it says of them. *)
NobodySharesObjects == NobodyAnswersTwice /\ "refuse" \notin RegisteredFilters

InPoolOrKept ==
  /\ IsInjective(mxHttpRequestPool)
  /\ \A h \in held : req[h[2]] = h[1]
  /\ \A i \in mxHttpRequestMap : (\E h \in held : h[2] = i) <=> i \notin ToSet(mxHttpRequestPool)

-----------------------------------------------------------------------------
(* A product grows with its second factor. *)
LEMMA ProductGrows ==
    ASSUME NEW g \in Nat, NEW a \in Nat, NEW b \in Nat, a <= b
    PROVE  g * a \in Nat /\ g * b \in Nat /\ g * a <= g * b /\ g * (a + 1) = g * a + g
<1>1. g * b = g * a + g * (b - a)
  OBVIOUS
<1>2. g * (b - a) \in Nat /\ g * a \in Nat /\ g * b \in Nat
  OBVIOUS
<1> QED BY <1>1, <1>2

LEMMA MaxIndexType == MaxIndex \in Nat /\ IsFiniteSet(Requests) /\ Cardinality(Requests) \in Nat
BY HttpAssumption, FS_CardinalityType, ProductGrows DEF MaxIndex

(* One push_back. *)
LEMMA ConcatOne ==
    ASSUME NEW S, NEW s \in Seq(S), NEW x \in S
    PROVE  s \o [k \in 1 .. 1 |-> x] = Append(s, x) /\ s \o [k \in 1 .. 0 |-> x] = s
<1>1. s \o [k \in 1 .. 1 |-> x] = Append(s, x)
  OBVIOUS
<1>2. s \o [k \in 1 .. 0 |-> x] = s
  OBVIOUS
<1> QED BY <1>1, <1>2

(* Taking the first object of a list that holds each object once. *)
LEMMA FrontLeaves ==
    ASSUME NEW S, NEW s \in Seq(S), s # <<>>, IsInjective(s)
    PROVE  /\ Head(s) \in ToSet(s)
           /\ ToSet(Tail(s)) = ToSet(s) \ {Head(s)}
           /\ IsInjective(Tail(s))
<1>1. /\ Len(s) \in Nat \ {0} /\ Head(s) = s[1] /\ DOMAIN s = 1 .. Len(s)
      /\ Len(Tail(s)) = Len(s) - 1 /\ DOMAIN Tail(s) = 1 .. (Len(s) - 1)
      /\ \A i \in 1 .. (Len(s) - 1) : Tail(s)[i] = s[i + 1]
  OBVIOUS
<1>2. \A i, j \in DOMAIN s : s[i] = s[j] => i = j
  BY DEF IsInjective
<1>3. ToSet(Tail(s)) \subseteq ToSet(s) \ {Head(s)}
  BY <1>1, <1>2 DEF ToSet
<1>4. ASSUME NEW i \in DOMAIN s, s[i] # Head(s) PROVE s[i] \in ToSet(Tail(s))
  <2>1. i # 1 /\ i - 1 \in 1 .. (Len(s) - 1) /\ (i - 1) + 1 = i
    BY <1>1, <1>4
  <2>2. Tail(s)[i - 1] = s[i]
    BY <1>1, <2>1
  <2> QED BY <1>1, <2>1, <2>2 DEF ToSet
<1>5. IsInjective(Tail(s))
  BY <1>1, <1>2 DEF IsInjective
<1> QED BY <1>1, <1>3, <1>4, <1>5 DEF ToSet

(* Pushing back an object that is not in the list. *)
LEMMA BackJoins ==
    ASSUME NEW S, NEW s \in Seq(S), NEW x \in S
    PROVE  /\ ToSet(Append(s, x)) = ToSet(s) \cup {x}
           /\ IsInjective(s) /\ x \notin ToSet(s) => IsInjective(Append(s, x))
<1>1. /\ Len(s) \in Nat /\ DOMAIN s = 1 .. Len(s) /\ Append(s, x) \in Seq(S)
      /\ DOMAIN Append(s, x) = 1 .. (Len(s) + 1)
      /\ \A i \in 1 .. Len(s) : Append(s, x)[i] = s[i]
      /\ Append(s, x)[Len(s) + 1] = x
  OBVIOUS
<1>2. \A i \in DOMAIN Append(s, x) : i \in DOMAIN s \/ i = Len(s) + 1
  BY <1>1
<1>3. ToSet(Append(s, x)) = ToSet(s) \cup {x}
  <2>1. ToSet(Append(s, x)) \subseteq ToSet(s) \cup {x}
    BY <1>1, <1>2 DEF ToSet
  <2>2. x \in ToSet(Append(s, x))
    BY <1>1 DEF ToSet
  <2>3. ASSUME NEW i \in DOMAIN s PROVE s[i] \in ToSet(Append(s, x))
    BY <1>1 DEF ToSet
  <2> QED BY <2>1, <2>2, <2>3 DEF ToSet
<1>4. ASSUME IsInjective(s), x \notin ToSet(s) PROVE IsInjective(Append(s, x))
  BY <1>1, <1>2, <1>4 DEF IsInjective, ToSet
<1> QED BY <1>3, <1>4

-----------------------------------------------------------------------------
(* Registrations are never taken back, so callbacks that behave now behaved *)
(* always.                                                                  *)
LEMMA RegistrationStays ==
    ASSUME HttpTypeOK,
           \/ \E t \in Types, p \in Paths, h \in HandlerResults : AddMsgCB(t, p, h)
           \/ \E p \in Paths, f \in FilterResults : AddFilterCB(p, f)
    PROVE  /\ HttpTypeOK'
           /\ \A x : x # Unset => /\ x \in RegisteredFilters => x \in RegisteredFilters'
                                  /\ x \in RegisteredHandlers => x \in RegisteredHandlers'
           /\ UNCHANGED <<mIndex, mxHttpRequestPool, req, held, arrived, answers>>
<1>1. ASSUME NEW t \in Types, NEW p \in Paths, NEW h \in HandlerResults, AddMsgCB(t, p, h)
      PROVE  /\ HttpTypeOK'
             /\ \A x : x # Unset => /\ x \in RegisteredFilters => x \in RegisteredFilters'
                                    /\ x \in RegisteredHandlers => x \in RegisteredHandlers'
  <2>1. <<t, p>> \in Types \X Paths /\ mMsgCBMap[<<t, p>>] = Unset
    BY <1>1 DEF AddMsgCB
  <2>2. /\ mMsgCBMap' = [mMsgCBMap EXCEPT ![<<t, p>>] = h]
        /\ UNCHANGED <<mMsgFliterMap, mIndex, mxHttpRequestPool, req, held, arrived, answers>>
    BY <1>1 DEF AddMsgCB
  <2>3. \A k \in Types \X Paths : mMsgCBMap'[k] = IF k = <<t, p>> THEN h ELSE mMsgCBMap[k]
    BY <2>1, <2>2 DEF HttpTypeOK
  <2>4. mMsgCBMap' \in [Types \X Paths -> HandlerResults \cup {Unset}]
    BY <2>1, <2>2 DEF HttpTypeOK
  <2>5. HttpTypeOK'
    BY <2>2, <2>4 DEF HttpTypeOK, mxHttpRequestMap
  <2>6. ASSUME NEW k \in Types \X Paths, mMsgCBMap[k] # Unset
        PROVE  mMsgCBMap'[k] = mMsgCBMap[k]
    BY <2>1, <2>3, <2>6
  <2> QED BY <2>2, <2>5, <2>6 DEF RegisteredFilters, RegisteredHandlers
<1>2. ASSUME NEW p \in Paths, NEW f \in FilterResults, AddFilterCB(p, f)
      PROVE  /\ HttpTypeOK'
             /\ \A x : x # Unset => /\ x \in RegisteredFilters => x \in RegisteredFilters'
                                    /\ x \in RegisteredHandlers => x \in RegisteredHandlers'
  <2>1. /\ mMsgFliterMap' = [mMsgFliterMap EXCEPT ![p] = f] /\ mMsgFliterMap[p] = Unset
        /\ UNCHANGED <<mMsgCBMap, mIndex, mxHttpRequestPool, req, held, arrived, answers>>
    BY <1>2 DEF AddFilterCB
  <2>2. mMsgFliterMap' \in [Paths -> FilterResults \cup {Unset}]
    BY <2>1 DEF HttpTypeOK
  <2>3. HttpTypeOK'
    BY <2>1, <2>2 DEF HttpTypeOK, mxHttpRequestMap
  <2>4. ASSUME NEW q \in Paths, mMsgFliterMap[q] # Unset
        PROVE  mMsgFliterMap'[q] = mMsgFliterMap[q]
    BY <2>1, <2>4 DEF HttpTypeOK
  <2> QED BY <2>1, <2>3, <2>4 DEF RegisteredFilters, RegisteredHandlers
<1> QED BY <1>1, <1>2 DEF AddMsgCB, AddFilterCB

LEMMA RegistrationInv ==
    ASSUME HttpInv,
           \/ \E t \in Types, p \in Paths, h \in HandlerResults : AddMsgCB(t, p, h)
           \/ \E p \in Paths, f \in FilterResults : AddFilterCB(p, f)
    PROVE  HttpInv'
<1>1. /\ HttpTypeOK'
      /\ \A x : x # Unset => /\ x \in RegisteredFilters => x \in RegisteredFilters'
                             /\ x \in RegisteredHandlers => x \in RegisteredHandlers'
      /\ UNCHANGED <<mIndex, mxHttpRequestPool, req, held, arrived, answers>>
  BY RegistrationStays DEF HttpInv
<1>2. /\ "throw" # Unset /\ "refuse" # Unset /\ "later" # Unset
      /\ "answerAndThrow" # Unset /\ "keepAndThrow" # Unset
  BY DEF Unset
<1>3. GrownByRequests' /\ KeptOnce'
  BY <1>1, <1>2 DEF HttpInv, GrownByRequests, KeptOnce, SomeoneDefers
<1>4. (NobodyAnswersTwice' => NobodyAnswersTwice) /\ (EachAnswersOnce' => EachAnswersOnce)
  BY <1>1, <1>2 DEF NobodyAnswersTwice, EachAnswersOnce
<1>5. ObjectsAreNotShared'
  BY <1>1, <1>2, <1>4 DEF HttpInv, ObjectsAreNotShared, mxHttpRequestMap
<1>6. AnsweredOrKept'
  BY <1>1, <1>4 DEF HttpInv, AnsweredOrKept, Kept
<1> QED BY <1>1, <1>3, <1>5, <1>6 DEF HttpInv

-----------------------------------------------------------------------------
(* What the handler alone adds up to. *)
LEMMA EffectOfHandler ==
    ASSUME NEW h \in HandlerResults \cup {Unset}
    PROVE  LET g == OnReceiveNetPack(h) IN
           \/ h = "later" /\ g = Effect(0, 0, 1)
           \/ h = "answerAndThrow" /\ g = Effect(2, 2, 0)
           \/ h = "keepAndThrow" /\ g = Effect(1, 1, 1)
           \/ h \in {"now", "throw", Unset} /\ g = Effect(1, 1, 0)
<1>1. CASE h = "later"
  BY <1>1 DEF OnReceiveNetPack, Unset
<1>2. CASE h = "answerAndThrow"
  <2>1. OnReceiveNetPack(h) = Then(ResponseMsg, ResponseMsg)
    BY <1>2 DEF OnReceiveNetPack, Unset
  <2> QED BY <1>2, <2>1 DEF Then, Effect, ResponseMsg
<1>3. CASE h = "keepAndThrow"
  <2>1. OnReceiveNetPack(h) = Then(Effect(0, 0, 1), ResponseMsg)
    BY <1>3 DEF OnReceiveNetPack, Unset
  <2> QED BY <1>3, <2>1 DEF Then, Effect, ResponseMsg
<1>4. CASE h \in {"now", "throw", Unset}
  BY <1>4 DEF OnReceiveNetPack, ResponseMsg, Unset
<1> QED BY <1>1, <1>2, <1>3, <1>4 DEF HandlerResults

(* What the filter and the handler add up to. *)
LEMMA EffectOfServing ==
    ASSUME NEW f \in FilterResults \cup {Unset}, NEW h \in HandlerResults \cup {Unset}
    PROVE  LET e == Served(f, h) IN
           \/ f = "refuse" /\ e = Effect(2, 1, 0)
           \/ /\ f = "throw"
              /\ \/ h = "later" /\ e = Effect(1, 1, 1)
                 \/ h = "answerAndThrow" /\ e = Effect(3, 3, 0)
                 \/ h = "keepAndThrow" /\ e = Effect(2, 2, 1)
                 \/ h \in {"now", "throw", Unset} /\ e = Effect(2, 2, 0)
           \/ f \in {"ok", Unset} /\ e = OnReceiveNetPack(h)
<1>1. CASE f = "refuse"
  <2>1. Served(f, h) = Then(Effect(1, 0, 0), ResponseMsg)
    BY <1>1 DEF Served, OnFilterPack, Unset
  <2> QED BY <1>1, <2>1 DEF Then, Effect, ResponseMsg
<1>2. CASE f = "throw"
  <2>1. Served(f, h) = Then(ResponseMsg, OnReceiveNetPack(h))
    BY <1>2 DEF Served, OnFilterPack, Unset
  <2>2. /\ Then(ResponseMsg, Effect(0, 0, 1)) = Effect(1, 1, 1)
        /\ Then(ResponseMsg, Effect(2, 2, 0)) = Effect(3, 3, 0)
        /\ Then(ResponseMsg, Effect(1, 1, 0)) = Effect(2, 2, 0)
        /\ Then(ResponseMsg, Effect(1, 1, 1)) = Effect(2, 2, 1)
    BY DEF Then, ResponseMsg, Effect
  <2> QED BY <1>2, <2>1, <2>2, EffectOfHandler
<1>3. CASE f \in {"ok", Unset}
  BY <1>3 DEF Served, OnFilterPack, Unset
<1> QED BY <1>1, <1>2, <1>3 DEF FilterResults

(* What one call of listener_cb adds up to: how often the object is pushed  *)
(* back and the request is answered, under any callbacks and under those    *)
(* that behave.                                                             *)
LEMMA EffectOfCall ==
    ASSUME HttpTypeOK, NEW t \in Types, NEW p \in Paths, NEW shape \in Shapes
    PROVE  LET e == Handled(shape, mMsgFliterMap[p], mMsgCBMap[<<t, p>>]) IN
           /\ e.pushes \in Nat /\ e.replies \in Nat /\ e.keeps \in {0, 1}
           /\ e.keeps = 1 => SomeoneDefers
           /\ NobodySharesObjects => \/ e.pushes = 1 /\ e.keeps = 0
                                     \/ e.pushes = 0 /\ e.keeps = 1
           /\ EachAnswersOnce => \/ e.replies = 1 /\ e.keeps = 0
                                 \/ e.replies = 0 /\ e.keeps = 1
                                 \/ e.replies = 0 /\ e.keeps = 0 /\ shape = "noBuffer"
<1> SUFFICES ASSUME NEW f \in FilterResults \cup {Unset}, NEW h \in HandlerResults \cup {Unset},
                    f \in RegisteredFilters, h \in RegisteredHandlers
             PROVE  LET e == Handled(shape, f, h) IN
                    /\ e.pushes \in Nat /\ e.replies \in Nat /\ e.keeps \in {0, 1}
                    /\ e.keeps = 1 => SomeoneDefers
                    /\ NobodySharesObjects => \/ e.pushes = 1 /\ e.keeps = 0
                                              \/ e.pushes = 0 /\ e.keeps = 1
                    /\ EachAnswersOnce => \/ e.replies = 1 /\ e.keeps = 0
                                          \/ e.replies = 0 /\ e.keeps = 1
                                          \/ e.replies = 0 /\ e.keeps = 0 /\ shape = "noBuffer"
  BY DEF HttpTypeOK, RegisteredFilters, RegisteredHandlers
<1> DEFINE e == Handled(shape, f, h)
<1>1. CASE shape = "whole"
  <2>1. e = Served(f, h)
    BY <1>1 DEF Handled
  <2> HIDE DEF e
  <2>2. CASE f = "refuse"
    <3>1. e = Effect(2, 1, 0)
      BY <2>1, <2>2, EffectOfServing DEF Unset
    <3>2. ~NobodySharesObjects
      BY <2>2 DEF NobodySharesObjects
    <3> QED BY <3>1, <3>2 DEF Effect, e
  <2>3. CASE f = "throw"
    <3>1. ~NobodySharesObjects /\ ~EachAnswersOnce
      BY <2>3 DEF NobodySharesObjects, EachAnswersOnce, NobodyAnswersTwice
    <3>2. \/ h = "later" /\ e = Effect(1, 1, 1)
          \/ e = Effect(3, 3, 0)
          \/ h = "keepAndThrow" /\ e = Effect(2, 2, 1)
          \/ e = Effect(2, 2, 0)
      BY <2>1, <2>3, EffectOfServing DEF Unset
    <3> QED BY <3>1, <3>2 DEF Effect, e, SomeoneDefers
  <2>4. CASE f \in {"ok", Unset}
    <3>1. h \in {"answerAndThrow", "keepAndThrow"} => ~NobodySharesObjects /\ ~EachAnswersOnce
      BY DEF NobodySharesObjects, EachAnswersOnce, NobodyAnswersTwice
    <3>2. \/ h = "later" /\ e = Effect(0, 0, 1)
          \/ h = "answerAndThrow" /\ e = Effect(2, 2, 0)
          \/ h = "keepAndThrow" /\ e = Effect(1, 1, 1)
          \/ e = Effect(1, 1, 0)
      BY <2>1, <2>4, EffectOfServing, EffectOfHandler DEF Unset
    <3> QED BY <3>1, <3>2 DEF Effect, e, SomeoneDefers
  <2> QED BY <2>2, <2>3, <2>4 DEF FilterResults
<1>2. CASE shape = "unreadable"
  BY <1>2 DEF Handled, Effect
<1>3. CASE shape = "noBuffer"
  BY <1>3 DEF Handled, Effect
<1> QED BY <1>1, <1>2, <1>3, HttpAssumption

-----------------------------------------------------------------------------
(* AllocHttpRequest finds an object, in the pool or among the new ones. *)
LEMMA FilledType ==
    ASSUME HttpTypeOK
    PROVE  /\ NextIndex \in Nat /\ mIndex \in Nat /\ mIndex <= NextIndex
           /\ Filled \in Seq(1 .. NextIndex) /\ Filled # <<>>
           /\ Head(Filled) \in 1 .. NextIndex /\ Remaining \in Seq(1 .. NextIndex)
<1>1. mIndex \in Nat /\ PoolGrowth \in Nat \ {0}
  BY HttpAssumption, MaxIndexType DEF HttpTypeOK
<1>2. CASE mxHttpRequestPool = <<>>
  <2>1. NextIndex = mIndex + PoolGrowth /\ Filled = [k \in 1 .. PoolGrowth |-> mIndex + k]
    BY <1>2 DEF NextIndex, Filled
  <2>2. \A k \in 1 .. PoolGrowth : mIndex + k \in 1 .. (mIndex + PoolGrowth)
    BY <1>1
  <2>3. Filled \in Seq(1 .. NextIndex) /\ Len(Filled) = PoolGrowth
    BY <1>1, <2>1, <2>2
  <2>4. Filled # <<>>
    BY <1>1, <2>3
  <2> QED BY <1>1, <2>1, <2>3, <2>4 DEF Remaining
<1>3. CASE mxHttpRequestPool # <<>>
  BY <1>1, <1>3 DEF NextIndex, Filled, Remaining, HttpTypeOK, mxHttpRequestMap
<1> QED BY <1>2, <1>3

(* A new object is not in the pool or in a handler's hands, and no object   *)
(* is twice in the list.                                                    *)
LEMMA FilledPartition ==
    ASSUME HttpTypeOK, InPoolOrKept
    PROVE  /\ IsInjective(Filled)
           /\ \A i \in 1 .. NextIndex : (\E h \in held : h[2] = i) <=> i \notin ToSet(Filled)
<1>1. mIndex \in Nat /\ PoolGrowth \in Nat \ {0}
  BY HttpAssumption, MaxIndexType DEF HttpTypeOK
<1>2. CASE mxHttpRequestPool = <<>>
  <2>1. /\ NextIndex = mIndex + PoolGrowth /\ DOMAIN Filled = 1 .. PoolGrowth
        /\ \A k \in 1 .. PoolGrowth : Filled[k] = mIndex + k
    BY <1>2 DEF NextIndex, Filled
  <2>2. ToSet(mxHttpRequestPool) = {}
    BY <1>2 DEF ToSet
  <2>3. \A h \in held : h[2] \in 1 .. mIndex
    BY DEF HttpTypeOK, mxHttpRequestMap
  <2>4. ToSet(Filled) = (mIndex + 1) .. (mIndex + PoolGrowth)
    <3>1. ToSet(Filled) \subseteq (mIndex + 1) .. (mIndex + PoolGrowth)
      BY <1>1, <2>1 DEF ToSet
    <3>2. ASSUME NEW i \in (mIndex + 1) .. (mIndex + PoolGrowth) PROVE i \in ToSet(Filled)
      <4>1. i - mIndex \in 1 .. PoolGrowth /\ mIndex + (i - mIndex) = i
        BY <1>1
      <4> QED BY <2>1, <4>1 DEF ToSet
    <3> QED BY <3>1, <3>2
  <2>5. IsInjective(Filled)
    BY <1>1, <2>1 DEF IsInjective
  <2> QED BY <1>1, <2>1, <2>2, <2>3, <2>4, <2>5 DEF InPoolOrKept, mxHttpRequestMap
<1>3. CASE mxHttpRequestPool # <<>>
  BY <1>3 DEF NextIndex, Filled, InPoolOrKept, mxHttpRequestMap
<1> QED BY <1>2, <1>3

(* The pool's growth is bounded by the requests that arrived. *)
LEMMA GrowthBounded ==
    ASSUME HttpInv, NEW r \in Requests, r \notin arrived
    PROVE  /\ NextIndex <= PoolGrowth * Cardinality(arrived \cup {r})
           /\ NextIndex <= MaxIndex
<1> DEFINE c == Cardinality(arrived)
<1>1. arrived \in SUBSET Requests /\ arrived \cup {r} \in SUBSET Requests
  BY DEF HttpInv, HttpTypeOK
<1>2. IsFiniteSet(arrived) /\ c \in Nat /\ Cardinality(arrived \cup {r}) = c + 1
  BY <1>1, MaxIndexType, FS_Subset, FS_CardinalityType, FS_AddElement
<1>3. c + 1 <= Cardinality(Requests) /\ Cardinality(Requests) \in Nat
  BY <1>1, <1>2, MaxIndexType, FS_Subset
<1> HIDE DEF c
<1>4. PoolGrowth \in Nat /\ PoolGrowth * c \in Nat /\ PoolGrowth * (c + 1) = PoolGrowth * c + PoolGrowth
      /\ PoolGrowth * (c + 1) <= MaxIndex
  BY <1>2, <1>3, HttpAssumption, ProductGrows DEF MaxIndex
<1>5. mIndex \in Nat /\ mIndex <= PoolGrowth * c /\ (NextIndex = mIndex \/ NextIndex = mIndex + PoolGrowth)
  BY FilledType DEF HttpInv, GrownByRequests, NextIndex, c
<1> QED BY <1>2, <1>4, <1>5, MaxIndexType

(* The types after a request has been taken in. *)
LEMMA ListenerCbType ==
    ASSUME HttpInv, NEW r \in Requests, NEW t \in Types, NEW p \in Paths, NEW shape \in Shapes,
           ListenerCb(r, t, p, shape)
    PROVE  HttpTypeOK' /\ GrownByRequests' /\ KeptOnce'
<1> DEFINE id == Head(Filled)
           e == Handled(shape, mMsgFliterMap[p], mMsgCBMap[<<t, p>>])
<1>0. HttpTypeOK
  BY DEF HttpInv
<1>1. /\ r \notin arrived /\ arrived' = arrived \cup {r} /\ mIndex' = NextIndex
      /\ req' = [req EXCEPT ![id] = r]
      /\ mxHttpRequestPool' = Remaining \o [k \in 1 .. e.pushes |-> id]
      /\ answers' = [answers EXCEPT ![r] = @ + e.replies]
      /\ held' = IF e.keeps = 1 THEN held \cup {<<r, id>>} ELSE held
      /\ UNCHANGED <<mMsgCBMap, mMsgFliterMap>>
  BY DEF ListenerCb
<1>2. /\ e.pushes \in Nat /\ e.replies \in Nat
      /\ e.keeps = 1 => SomeoneDefers
  BY <1>0, EffectOfCall
<1> HIDE DEF e
<1>3. /\ NextIndex \in Nat /\ mIndex \in Nat /\ mIndex <= NextIndex
      /\ id \in 1 .. NextIndex /\ Remaining \in Seq(1 .. NextIndex)
  BY <1>0, FilledType
<1>4. NextIndex <= PoolGrowth * Cardinality(arrived') /\ NextIndex \in 0 .. MaxIndex
  BY <1>1, <1>3, GrowthBounded, MaxIndexType
<1> HIDE DEF id
<1>5. mxHttpRequestPool' \in Seq(1 .. NextIndex)
  <2>1. [k \in 1 .. e.pushes |-> id] \in Seq(1 .. NextIndex)
    BY <1>2, <1>3
  <2> QED BY <1>1, <1>3, <2>1, ConcatProperties
<1>6. 1 .. mIndex \subseteq 1 .. NextIndex /\ arrived' \subseteq Requests /\ r \in arrived'
  BY <1>0, <1>1, <1>3 DEF HttpTypeOK
<1>7. held' \subseteq arrived' \X (1 .. NextIndex)
  <2>1. held \subseteq arrived \X (1 .. mIndex)
    BY <1>0 DEF HttpTypeOK, mxHttpRequestMap
  <2> QED BY <1>1, <1>3, <1>6, <2>1
<1>8. /\ req' \in [1 .. MaxIndex -> Requests \cup {NoRequest}]
      /\ answers' \in [Requests -> Nat]
  <2>1. answers[r] + e.replies \in Nat
    BY <1>0, <1>2 DEF HttpTypeOK
  <2>2. answers' = [answers EXCEPT ![r] = answers[r] + e.replies]
    BY <1>1
  <2>3. answers' \in [Requests -> Nat]
    BY <1>0, <2>1, <2>2 DEF HttpTypeOK
  <2>4. req' \in [1 .. MaxIndex -> Requests \cup {NoRequest}]
    BY <1>0, <1>1 DEF HttpTypeOK
  <2> QED BY <2>3, <2>4
<1>9. HttpTypeOK'
  BY <1>0, <1>1, <1>4, <1>5, <1>6, <1>7, <1>8 DEF HttpTypeOK, mxHttpRequestMap
<1>10. KeptOnce'
  <2>1. \A h \in held : h[1] # r
    BY <1>0, <1>1 DEF HttpTypeOK
  <2>2. SomeoneDefers' <=> SomeoneDefers
    BY <1>1 DEF SomeoneDefers, RegisteredHandlers
  <2>3. \A g, h \in held' : g[1] = h[1] => g = h
    BY <1>1, <2>1 DEF HttpInv, KeptOnce
  <2>4. held' # {} => SomeoneDefers
    <3>1. CASE e.keeps = 1
      BY <1>2, <3>1
    <3>2. CASE e.keeps # 1
      BY <1>1, <3>2 DEF HttpInv, KeptOnce
    <3> QED BY <3>1, <3>2
  <2> QED BY <2>2, <2>3, <2>4 DEF KeptOnce
<1> QED BY <1>1, <1>4, <1>9, <1>10 DEF GrownByRequests

(* The object that was taken goes back to the pool or to one handler. *)
LEMMA ListenerCbPool ==
    ASSUME HttpInv, NEW r \in Requests, NEW t \in Types, NEW p \in Paths, NEW shape \in Shapes,
           ListenerCb(r, t, p, shape), HttpTypeOK', NobodySharesObjects
    PROVE  InPoolOrKept'
<1> DEFINE id == Head(Filled)
           e == Handled(shape, mMsgFliterMap[p], mMsgCBMap[<<t, p>>])
<1>0. HttpTypeOK /\ InPoolOrKept
  BY DEF HttpInv, ObjectsAreNotShared, NobodySharesObjects, InPoolOrKept
<1>1. /\ mIndex' = NextIndex /\ req' = [req EXCEPT ![id] = r]
      /\ mxHttpRequestPool' = Remaining \o [k \in 1 .. e.pushes |-> id]
      /\ held' = IF e.keeps = 1 THEN held \cup {<<r, id>>} ELSE held
  BY DEF ListenerCb
<1>2. \/ e.pushes = 1 /\ e.keeps = 0
      \/ e.pushes = 0 /\ e.keeps = 1
  BY <1>0, EffectOfCall
<1> HIDE DEF e
<1>3. /\ NextIndex \in 0 .. MaxIndex /\ mIndex <= NextIndex /\ mIndex \in Nat
      /\ Filled \in Seq(1 .. NextIndex) /\ Filled # <<>>
      /\ id \in 1 .. NextIndex /\ Remaining \in Seq(1 .. NextIndex)
  BY <1>0, <1>1, FilledType DEF HttpTypeOK
<1>4. /\ IsInjective(Filled)
      /\ \A i \in 1 .. NextIndex : (\E h \in held : h[2] = i) <=> i \notin ToSet(Filled)
  BY <1>0, FilledPartition
<1>5. /\ id \in ToSet(Filled) /\ IsInjective(Remaining)
      /\ ToSet(Remaining) = ToSet(Filled) \ {id}
  BY <1>3, <1>4, FrontLeaves DEF Remaining
<1>6. \A h \in held : h[2] \in 1 .. mIndex /\ h[2] # id
  BY <1>0, <1>3, <1>4, <1>5 DEF HttpTypeOK, mxHttpRequestMap
<1> HIDE DEF id
<1>7. req'[id] = r /\ \A h \in held : req'[h[2]] = h[1]
  <2>1. id \in 1 .. MaxIndex /\ \A h \in held : h[2] \in 1 .. MaxIndex
    BY <1>3, <1>6, MaxIndexType
  <2> QED BY <1>0, <1>1, <1>6, <2>1 DEF HttpTypeOK, InPoolOrKept
<1>8. CASE e.pushes = 1 /\ e.keeps = 0
  <2>1. held' = held /\ mxHttpRequestPool' = Append(Remaining, id)
    BY <1>1, <1>3, <1>8, ConcatOne
  <2>2. /\ ToSet(Append(Remaining, id)) = ToSet(Remaining) \cup {id}
        /\ IsInjective(Append(Remaining, id))
    <3>1. id \notin ToSet(Remaining)
      BY <1>5
    <3> HIDE DEF Remaining
    <3> QED BY <1>3, <1>5, <3>1, BackJoins
  <2>3. IsInjective(mxHttpRequestPool') /\ ToSet(mxHttpRequestPool') = ToSet(Filled)
    BY <1>5, <2>1, <2>2
  <2> QED BY <1>1, <1>4, <1>7, <2>1, <2>3 DEF InPoolOrKept, mxHttpRequestMap
<1>9. CASE e.pushes = 0 /\ e.keeps = 1
  <2>1. held' = held \cup {<<r, id>>} /\ mxHttpRequestPool' = Remaining
    BY <1>1, <1>3, <1>9, ConcatOne
  <2>2. ASSUME NEW i \in 1 .. NextIndex
        PROVE  (\E h \in held' : h[2] = i) <=> i \notin ToSet(Remaining)
    <3>1. (\E h \in held' : h[2] = i) <=> (\E h \in held : h[2] = i) \/ i = id
      <4>1. <<r, id>> \in held' /\ <<r, id>>[2] = id /\ held \subseteq held'
        BY <2>1
      <4>2. \A h \in held' : h \in held \/ h[2] = id
        BY <2>1
      <4> QED BY <4>1, <4>2, Zenon
    <3>2. (\E h \in held : h[2] = i) <=> i \notin ToSet(Filled)
      BY <1>4
    <3>3. i \in ToSet(Remaining) <=> i \in ToSet(Filled) /\ i # id
      BY <1>5
    <3> QED BY <3>1, <3>2, <3>3
  <2>3. \A h \in held' : req'[h[2]] = h[1]
    BY <1>7, <2>1
  <2> QED BY <1>1, <1>5, <2>1, <2>2, <2>3 DEF InPoolOrKept, mxHttpRequestMap
<1> QED BY <1>2, <1>8, <1>9

(* The request that arrives is answered, or its object kept. *)
LEMMA ListenerCbAnswers ==
    ASSUME HttpInv, NEW r \in Requests, NEW t \in Types, NEW p \in Paths, NEW shape \in Shapes,
           ListenerCb(r, t, p, shape)
    PROVE  AnsweredOrKept'
<1> DEFINE id == Head(Filled)
           e == Handled(shape, mMsgFliterMap[p], mMsgCBMap[<<t, p>>])
<1>0. HttpTypeOK
  BY DEF HttpInv
<1>1. /\ r \notin arrived /\ arrived' = arrived \cup {r}
      /\ answers' = [answers EXCEPT ![r] = @ + e.replies]
      /\ held' = IF e.keeps = 1 THEN held \cup {<<r, id>>} ELSE held
      /\ UNCHANGED <<mMsgCBMap, mMsgFliterMap>>
  BY DEF ListenerCb
<1>2. EachAnswersOnce => \/ e.replies = 1 /\ e.keeps = 0
                         \/ e.replies = 0 /\ e.keeps = 1
                         \/ e.replies = 0 /\ e.keeps = 0 /\ shape = "noBuffer"
  BY <1>0, EffectOfCall
<1> HIDE DEF e, id
<1>3. EachAnswersOnce' = EachAnswersOnce
  BY <1>1 DEF EachAnswersOnce, NobodyAnswersTwice, RegisteredFilters, RegisteredHandlers
<1>4. SUFFICES ASSUME EachAnswersOnce, NEW s \in Requests
               PROVE  /\ answers'[s] <= 1
                      /\ answers'[s] = 1 => s \in arrived' /\ ~ Kept(s)'
                      /\ s \in arrived' /\ "noBuffer" \notin Shapes => answers'[s] = 1 \/ Kept(s)'
  BY <1>3 DEF AnsweredOrKept
<1>5. /\ answers[s] \in Nat /\ answers[s] <= 1
      /\ answers[s] = 1 => s \in arrived /\ ~ Kept(s)
      /\ s \in arrived /\ "noBuffer" \notin Shapes => answers[s] = 1 \/ Kept(s)
  BY <1>4 DEF HttpInv, HttpTypeOK, AnsweredOrKept
<1>6. CASE s # r
  <2>1. answers'[s] = answers[s] /\ (s \in arrived' <=> s \in arrived)
    BY <1>0, <1>1, <1>6 DEF HttpTypeOK
  <2>2. Kept(s)' <=> Kept(s)
    BY <1>1, <1>6 DEF Kept
  <2> QED BY <1>5, <2>1, <2>2
<1>7. CASE s = r
  <2>1. \A h \in held : h[1] # r
    BY <1>0, <1>1 DEF HttpTypeOK
  <2>2. Kept(r)' <=> e.keeps = 1
    <3>1. Kept(r)' <=> \E h \in held' : h[1] = r
      BY DEF Kept
    <3>2. CASE e.keeps = 1
      <4>1. <<r, id>> \in held' /\ <<r, id>>[1] = r
        BY <1>1, <3>2
      <4> QED BY <3>1, <3>2, <4>1
    <3>3. CASE e.keeps # 1
      BY <1>1, <2>1, <3>1, <3>3
    <3> QED BY <3>2, <3>3
  <2>3. answers[r] = 0
    BY <1>1, <1>5, <1>7
  <2>4. answers'[r] = e.replies
    <3>1. answers'[r] = answers[r] + e.replies
      BY <1>0, <1>1 DEF HttpTypeOK
    <3> QED BY <1>2, <1>4, <2>3, <3>1
  <2> QED BY <1>1, <1>2, <1>4, <1>7, <2>2, <2>4
<1> QED BY <1>6, <1>7

LEMMA ListenerCbInv ==
    ASSUME HttpInv, NEW r \in Requests, NEW t \in Types, NEW p \in Paths, NEW shape \in Shapes,
           ListenerCb(r, t, p, shape)
    PROVE  HttpInv'
<1>1. HttpTypeOK' /\ GrownByRequests' /\ KeptOnce'
  BY ListenerCbType
<1>2. NobodySharesObjects' = NobodySharesObjects
  BY DEF ListenerCb, NobodySharesObjects, NobodyAnswersTwice, RegisteredFilters, RegisteredHandlers
<1>3. ObjectsAreNotShared'
  BY <1>1, <1>2, ListenerCbPool DEF ObjectsAreNotShared, NobodySharesObjects, InPoolOrKept
<1> QED BY <1>1, <1>3, ListenerCbAnswers DEF HttpInv

-----------------------------------------------------------------------------
(* An answer given later. *)
LEMMA AnswerLaterInv ==
    ASSUME HttpInv, NEW k \in held, AnswerLater(k[1], k[2])
    PROVE  HttpInv'
<1> DEFINE r == k[1]
           id == k[2]
<1>0. HttpTypeOK
  BY DEF HttpInv
<1>1. /\ k = <<r, id>> /\ r \in arrived /\ r \in Requests /\ id \in 1 .. mIndex
      /\ mIndex \in 0 .. MaxIndex
  BY <1>0 DEF HttpTypeOK, mxHttpRequestMap
<1>2. /\ held' = held \ {k}
      /\ answers' = [answers EXCEPT ![req[id]] = @ + 1]
      /\ mxHttpRequestPool' = Append(mxHttpRequestPool, id)
      /\ UNCHANGED <<mMsgCBMap, mMsgFliterMap, mIndex, req, arrived>>
  BY <1>1 DEF AnswerLater
<1> HIDE DEF r, id
<1>3. HttpTypeOK'
  <2>1. answers' \in [Requests -> Nat]
    <3>1. CASE req[id] \in Requests
      <4>1. answers[req[id]] + 1 \in Nat
        BY <1>0, <3>1 DEF HttpTypeOK
      <4>2. answers' = [answers EXCEPT ![req[id]] = answers[req[id]] + 1]
        BY <1>2
      <4> QED BY <1>0, <4>1, <4>2 DEF HttpTypeOK
    <3>2. CASE req[id] \notin Requests
      BY <1>0, <1>2, <3>2 DEF HttpTypeOK
    <3> QED BY <3>1, <3>2
  <2>2. mxHttpRequestPool' \in Seq(1 .. mIndex)
    BY <1>0, <1>1, <1>2 DEF HttpTypeOK, mxHttpRequestMap
  <2> QED BY <1>0, <1>2, <2>1, <2>2 DEF HttpTypeOK, mxHttpRequestMap
<1>4. GrownByRequests' /\ KeptOnce'
  BY <1>2 DEF HttpInv, GrownByRequests, KeptOnce, SomeoneDefers, RegisteredHandlers
<1>5. /\ NobodySharesObjects' = NobodySharesObjects /\ EachAnswersOnce' = EachAnswersOnce
  BY <1>2 DEF NobodySharesObjects, EachAnswersOnce, NobodyAnswersTwice, RegisteredFilters,
              RegisteredHandlers
<1>6. \A g \in held : g[1] = r => g = k
  BY DEF HttpInv, KeptOnce, r
<1>7. NobodySharesObjects =>
        /\ InPoolOrKept /\ req[id] = r
        /\ id \notin ToSet(mxHttpRequestPool) /\ \A g \in held : g[2] = id => g = k
  <2> SUFFICES ASSUME NobodySharesObjects
               PROVE  /\ InPoolOrKept /\ req[id] = r
                      /\ id \notin ToSet(mxHttpRequestPool) /\ \A g \in held : g[2] = id => g = k
    OBVIOUS
  <2>1. InPoolOrKept
    BY DEF HttpInv, ObjectsAreNotShared, NobodySharesObjects, InPoolOrKept
  <2>2. req[id] = r /\ id \notin ToSet(mxHttpRequestPool)
    BY <1>1, <2>1 DEF InPoolOrKept, mxHttpRequestMap, r, id
  <2>3. ASSUME NEW g \in held, g[2] = id PROVE g = k
    BY <1>6, <2>1, <2>2, <2>3 DEF InPoolOrKept
  <2> QED BY <2>1, <2>2, <2>3
<1>8. ObjectsAreNotShared'
  <2> SUFFICES ASSUME NobodySharesObjects PROVE InPoolOrKept'
    BY <1>5 DEF ObjectsAreNotShared, NobodySharesObjects, InPoolOrKept
  <2>1. /\ IsInjective(mxHttpRequestPool') 
        /\ ToSet(mxHttpRequestPool') = ToSet(mxHttpRequestPool) \cup {id}
    BY <1>0, <1>1, <1>2, <1>7, BackJoins DEF InPoolOrKept, HttpTypeOK, mxHttpRequestMap
  <2>2. \A i \in 1 .. mIndex : (\E h \in held' : h[2] = i)
                                 <=> i # id /\ \E h \in held : h[2] = i
    BY <1>1, <1>2, <1>7 DEF id
  <2> QED BY <1>2, <1>7, <2>1, <2>2 DEF InPoolOrKept, mxHttpRequestMap
<1>9. AnsweredOrKept'
  <2> SUFFICES ASSUME EachAnswersOnce, NEW s \in Requests
               PROVE  /\ answers'[s] <= 1
                      /\ answers'[s] = 1 => s \in arrived' /\ ~ Kept(s)'
                      /\ s \in arrived' /\ "noBuffer" \notin Shapes => answers'[s] = 1 \/ Kept(s)'
    BY <1>5 DEF AnsweredOrKept
  <2>1. /\ \A q \in Requests : answers[q] \in Nat /\ answers[q] <= 1
        /\ \A q \in Requests : answers[q] = 1 => q \in arrived /\ ~ Kept(q)
        /\ s \in arrived /\ "noBuffer" \notin Shapes => answers[s] = 1 \/ Kept(s)
    BY <1>0 DEF HttpInv, HttpTypeOK, AnsweredOrKept
  <2>2. NobodySharesObjects
    BY DEF HttpInv, KeptOnce, SomeoneDefers, EachAnswersOnce, NobodyAnswersTwice,
           NobodySharesObjects
  <2>3. answers' = [answers EXCEPT ![r] = answers[r] + 1]
    BY <1>2, <1>7, <2>2
  <2>4. Kept(r) /\ ~ Kept(r)' /\ answers[r] = 0
    <3>1. Kept(r)
      BY DEF Kept, r
    <3>2. ~ Kept(r)'
      BY <1>2, <1>6 DEF Kept
    <3> QED BY <1>1, <2>1, <3>1, <3>2
  <2>5. CASE s = r
    <3>1. answers'[r] = 1
      BY <1>0, <1>1, <2>3, <2>4 DEF HttpTypeOK
    <3> QED BY <1>1, <1>2, <2>4, <2>5, <3>1
  <2>6. CASE s # r
    <3>1. answers'[s] = answers[s]
      BY <1>0, <2>3, <2>6 DEF HttpTypeOK
    <3>2. Kept(s)' <=> Kept(s)
      BY <1>2, <2>6 DEF Kept, r
    <3> QED BY <1>2, <2>1, <3>1, <3>2
  <2> QED BY <2>5, <2>6
<1> QED BY <1>3, <1>4, <1>8, <1>9 DEF HttpInv

-----------------------------------------------------------------------------
(* Nothing is registered, made or answered at first. *)
LEMMA HttpInitInv == HttpInit => HttpInv
<1> SUFFICES ASSUME HttpInit PROVE HttpInv
  OBVIOUS
<1> USE DEF HttpInit
<1>0. Cardinality({}) = 0 /\ PoolGrowth \in Nat
  BY FS_EmptySet, HttpAssumption
<1>1. HttpTypeOK
  <2>1. mxHttpRequestPool \in Seq(1 .. mIndex)
    OBVIOUS
  <2> QED BY <2>1, MaxIndexType DEF HttpTypeOK, mxHttpRequestMap
<1>2. GrownByRequests
  <2>1. PoolGrowth * 0 = 0
    BY <1>0
  <2> QED BY <1>0, <2>1 DEF GrownByRequests
<1>3. KeptOnce /\ AnsweredOrKept
  BY DEF KeptOnce, AnsweredOrKept, Kept
<1>4. ObjectsAreNotShared
  <2>1. DOMAIN mxHttpRequestPool = {} /\ mxHttpRequestMap = {}
    BY DEF mxHttpRequestMap
  <2> QED BY <2>1 DEF ObjectsAreNotShared, IsInjective
<1> QED BY <1>1, <1>2, <1>3, <1>4 DEF HttpInv

LEMMA HttpNextInv == HttpInv /\ [HttpNext]_vars => HttpInv'
<1> SUFFICES ASSUME HttpInv, [HttpNext]_vars PROVE HttpInv'
  OBVIOUS
<1>1. CASE \/ \E t \in Types, p \in Paths, h \in HandlerResults : AddMsgCB(t, p, h)
           \/ \E p \in Paths, f \in FilterResults : AddFilterCB(p, f)
  BY <1>1, RegistrationInv
<1>2. CASE \E r \in Requests, t \in Types, p \in Paths, s \in Shapes : ListenerCb(r, t, p, s)
  BY <1>2, ListenerCbInv
<1>3. CASE \E h \in held : AnswerLater(h[1], h[2])
  BY <1>3, AnswerLaterInv
<1>4. CASE UNCHANGED vars
  BY <1>4 DEF vars, HttpInv, HttpTypeOK, GrownByRequests, KeptOnce, SomeoneDefers,
     ObjectsAreNotShared, AnsweredOrKept, EachAnswersOnce, NobodyAnswersTwice, RegisteredFilters, RegisteredHandlers,
     Kept, mxHttpRequestMap
<1> QED BY <1>1, <1>2, <1>3, <1>4 DEF HttpNext

LEMMA HttpInvariance == HttpSpec => []HttpInv
BY HttpInitInv, HttpNextInv, PTL DEF HttpSpec

-----------------------------------------------------------------------------
(* The types, and that no more objects are made than the requests need      *)
(* (AllocHttpRequest).                                                      *)
THEOREM HttpTypeCorrect == HttpSpec => []HttpTypeOK
<1>1. HttpInv => HttpTypeOK
  BY DEF HttpInv
<1> QED BY <1>1, HttpInvariance, PTL

(* An NFHttpRequest is in the pool, once, or in one handler's hands, while  *)
(* no filter refuses or throws and no handler throws after its answer       *)
(* (listener_cb, AllocHttpRequest, ResponseMsg).                            *)
THEOREM ObjectsStayApart == HttpSpec => []ObjectsAreNotShared
<1>1. HttpInv => ObjectsAreNotShared
  BY DEF HttpInv
<1> QED BY <1>1, HttpInvariance, PTL

(* No request is answered twice and none is forgotten: what libevent brings *)
(* is answered or in the hands of a handler that defers.  The safety half   *)
(* of AnsweredExactlyOnce.                                                  *)
THEOREM NoRequestForgotten == HttpSpec => []AnsweredOrKept
<1>1. HttpInv => AnsweredOrKept
  BY DEF HttpInv
<1> QED BY <1>1, HttpInvariance, PTL
=============================================================================

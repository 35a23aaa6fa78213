---------------------------- MODULE FramingProofs ----------------------------
(***************************************************************************)
(* Framing implements MsgChannel, for all ids, all lengths whose frames    *)
(* fit an int and any cut of the stream.  The invariant behind it says     *)
(* that the buffer always begins with the head of the first message not    *)
(* delivered yet; DeCode then reads that message's own length.             *)
(***************************************************************************)
EXTENDS Framing, TLAPS

(* The frames lie one behind the other in the stream. *)
FramesAdjoin ==
    /\ sent # <<>> => starts[1] = 0
    /\ sent = <<>> => written = 0
    /\ \A k \in DOMAIN sent :
         IF k = Len(sent)
         THEN written = starts[k] + NF_HEAD_LENGTH + sent[k].len
         ELSE starts[k + 1] = starts[k] + NF_HEAD_LENGTH + sent[k].len

(* No two frames start at the same offset, none at the end of the stream. *)
StartsGrow ==
    /\ \A j, k \in DOMAIN sent : j < k => starts[j] < starts[k]
    /\ \A k \in DOMAIN sent : starts[k] < written

(* The buffer begins with the first message that was not delivered. *)
BufferAligned ==
    /\ Len(delivered) <= Len(sent)
    /\ IF Len(delivered) = Len(sent)
       THEN base = written
       ELSE base = starts[Len(delivered) + 1]

FramingInv == FramingTypeOK /\ FramesAdjoin /\ StartsGrow /\ BufferAligned

(* A size below the span of the wire's integers is not changed by it. *)
LEMMA ModOfSmall ==
    ASSUME NEW s \in Nat \ {0}, NEW a \in 0 .. s - 1
    PROVE  a % s = a
  BY SMT

(* The receiver finds the length the sender wrote. *)
LEMMA LengthSurvives ==
    ASSUME NEW n \in BodyLengths
    PROVE  n \in Nat /\ BodyLength(WireSize(n)) = n
<1>1. n \in Nat /\ n + NF_HEAD_LENGTH \in 0 .. SizeSpan - 1
  BY FramingAssumption, SMT DEF NF_HEAD_LENGTH
<1>2. WireSize(n) = n + NF_HEAD_LENGTH
  BY <1>1, ModOfSmall, FramingAssumption DEF WireSize
<1>3. n \in 0 .. SizeSpan - 1 /\ (n + NF_HEAD_LENGTH) - NF_HEAD_LENGTH = n
  BY <1>1, FramingAssumption, SMT DEF NF_HEAD_LENGTH
<1>4. n % SizeSpan = n
  BY <1>3, ModOfSmall, FramingAssumption
<1> QED BY <1>1, <1>2, <1>3, <1>4 DEF BodyLength

LEMMA WireIdType ==
    ASSUME NEW i \in MsgIds
    PROVE  WireId(i) \in 0 .. IdSpan - 1
  BY FramingAssumption, SMT DEF WireId

(* A complete message at the front is the first one not delivered. *)
LEMMA FrontIsNext ==
    ASSUME FramingInv, Complete
    PROVE  /\ Len(delivered) < Len(sent)
           /\ DeCode(Head_) = sent[Len(delivered) + 1].len
           /\ Head_.id = sent[Len(delivered) + 1].id
           /\ sent[Len(delivered) + 1].len > 0
           /\ Head_.id > 0
           /\ sent[Len(delivered) + 1].len + NF_HEAD_LENGTH <= GetBuffLen
<1> DEFINE n == Len(delivered) + 1
<1>1. PICK k \in DOMAIN sent : starts[k] = base
  BY DEF Complete, AtHead
<1>2. Len(delivered) \in Nat /\ Len(sent) \in Nat /\ DOMAIN sent = 1 .. Len(sent)
      /\ DOMAIN starts = DOMAIN sent /\ \A j \in DOMAIN sent : starts[j] \in Nat
      /\ written \in Nat /\ base \in Nat /\ got \in Nat
  BY DEF FramingInv, FramingTypeOK
<1>3. Len(delivered) < Len(sent) /\ base = starts[n] /\ n \in DOMAIN sent
  BY <1>1, <1>2 DEF FramingInv, BufferAligned, StartsGrow
<1>4. \A j \in DOMAIN sent : AtHead(j) => j = n
  BY <1>2, <1>3 DEF FramingInv, StartsGrow, AtHead
<1>5. (CHOOSE j \in DOMAIN sent : AtHead(j)) = n
  BY <1>3, <1>4 DEF AtHead
<1>6. Head_ = [id |-> sent[n].id, size |-> WireSize(sent[n].len)]
  BY <1>5 DEF Head_
<1>7. sent[n] \in Frames
  BY <1>3 DEF FramingInv, FramingTypeOK
<1>8. sent[n].len \in BodyLengths
  BY <1>7 DEF Frames
<1>9. BodyLength(Head_.size) = sent[n].len /\ sent[n].len \in Nat
  BY <1>6, <1>8, LengthSurvives
<1>10. DeCode(Head_) = sent[n].len /\ sent[n].len <= GetBuffLen - NF_HEAD_LENGTH
  <2>1. DeCode(Head_) > 0
    BY DEF Complete
  <2>2. GetBuffLen \in Int
    BY <1>2 DEF GetBuffLen
  <2> QED BY <1>9, <2>1, <2>2, SMT DEF DeCode, NF_HEAD_LENGTH
<1> QED
  BY <1>2, <1>3, <1>6, <1>9, <1>10 DEF Complete, GetBuffLen, NF_HEAD_LENGTH

-----------------------------------------------------------------------------
(* The framing's types and counters are right for every set of ids and      *)
(* lengths whose frames fit an int (src/Common/NFComm/NFNetPlugin/          *)
(* NFNet.cpp, SendMsgWithOutHead to Dismantle).                             *)
THEOREM FramingInvariant == FramingSpec => []FramingInv
<1>1. FramingInit => FramingInv
  <2> SUFFICES ASSUME FramingInit PROVE FramingInv
    OBVIOUS
  <2>1. /\ sent = <<>> /\ starts = <<>> /\ delivered = <<>>
        /\ written = 0 /\ got = 0 /\ base = 0
    BY DEF FramingInit
  <2>2. bNeedRemove \in BOOLEAN /\ freed \in BOOLEAN /\ reading \in BOOLEAN
    BY DEF FramingInit
  <2>3. FramingTypeOK
    BY <2>1, <2>2 DEF FramingTypeOK
  <2>4. Len(sent) = 0 /\ Len(delivered) = 0 /\ DOMAIN sent = {}
    BY <2>1
  <2>5. FramesAdjoin /\ StartsGrow /\ BufferAligned
    BY <2>1, <2>4 DEF FramesAdjoin, StartsGrow, BufferAligned
  <2> QED BY <2>3, <2>5 DEF FramingInv
<1>2. FramingInv /\ [FramingNext]_framingVars => FramingInv'
  <2> SUFFICES ASSUME FramingInv, [FramingNext]_framingVars PROVE FramingInv'
    OBVIOUS
  <2> USE DEF FramingInv
  <2>1. ASSUME NEW i \in MsgIds, NEW n \in BodyLengths, SendMsgWithOutHead(i, n)
        PROVE  FramingInv'
    <3> DEFINE m == [id |-> WireId(i), len |-> n]
    <3>1. m \in Frames /\ n \in Nat
      BY WireIdType, LengthSurvives DEF Frames
    <3>2. /\ sent' = Append(sent, m) /\ starts' = Append(starts, written)
          /\ written' = written + NF_HEAD_LENGTH + n
          /\ UNCHANGED <<got, base, delivered, bNeedRemove, freed, reading>>
      BY <2>1 DEF SendMsgWithOutHead, objVars
    <3>3. FramingTypeOK'
      BY <3>1, <3>2 DEF FramingTypeOK, NF_HEAD_LENGTH
    <3>4. /\ Len(sent) \in Nat /\ Len(sent') = Len(sent) + 1
          /\ DOMAIN sent = 1 .. Len(sent) /\ DOMAIN sent' = 1 .. Len(sent) + 1
          /\ \A k \in DOMAIN sent : sent'[k] = sent[k] /\ starts'[k] = starts[k]
          /\ sent'[Len(sent) + 1] = m /\ starts'[Len(sent) + 1] = written
          /\ \A k \in DOMAIN sent : starts[k] \in Nat /\ sent[k].len \in Nat
      <4>1. ASSUME NEW k \in DOMAIN sent PROVE sent[k].len \in Nat
        <5>1. sent[k] \in Frames
          BY DEF FramingTypeOK
        <5>2. sent[k].len \in BodyLengths
          BY <5>1 DEF Frames
        <5> QED BY <5>2, LengthSurvives
      <4> QED BY <3>1, <3>2, <4>1 DEF FramingTypeOK
    <3>5. FramesAdjoin'
      <4>1. (sent # <<>> => starts[1] = 0)' /\ (sent = <<>> => written = 0)'
        <5>1. sent' # <<>>
          BY <3>4
        <5>2. CASE sent = <<>>
          BY <5>1, <5>2, <3>4 DEF FramesAdjoin
        <5>3. CASE sent # <<>>
          <6>1. 1 \in DOMAIN sent
            BY <5>3, <3>4 DEF FramingTypeOK
          <6> QED BY <6>1, <5>1, <5>3, <3>4 DEF FramesAdjoin
        <5> QED BY <5>2, <5>3
      <4>2. ASSUME NEW k \in DOMAIN sent'
            PROVE  (IF k = Len(sent)
                    THEN written = starts[k] + NF_HEAD_LENGTH + sent[k].len
                    ELSE starts[k + 1] = starts[k] + NF_HEAD_LENGTH + sent[k].len)'
        <5>1. CASE k = Len(sent) + 1
          BY <5>1, <3>2, <3>4
        <5>2. CASE k # Len(sent) + 1
          <6>1. k \in DOMAIN sent /\ k # Len(sent')
            BY <5>2, <3>4
          <6>2. starts'[k + 1] = starts[k] + NF_HEAD_LENGTH + sent[k].len
            BY <6>1, <3>4 DEF FramesAdjoin
          <6> QED BY <6>1, <6>2, <3>4
        <5> QED BY <5>1, <5>2
      <4> QED BY <4>1, <4>2 DEF FramesAdjoin
    <3>6. StartsGrow'
      <4>1. written \in Nat /\ written' \in Nat /\ written < written'
        BY <3>1, <3>2 DEF FramingTypeOK, NF_HEAD_LENGTH
      <4>2. ASSUME NEW k \in DOMAIN sent' PROVE starts'[k] \in Nat /\ starts'[k] <= written
        <5>1. CASE k = Len(sent) + 1
          BY <5>1, <4>1, <3>4
        <5>2. CASE k # Len(sent) + 1
          <6>1. k \in DOMAIN sent /\ starts'[k] = starts[k]
            BY <5>2, <3>4
          <6>2. starts[k] \in Nat /\ starts[k] < written
            BY <6>1, <3>4 DEF StartsGrow
          <6> QED BY <6>1, <6>2, <4>1
        <5> QED BY <5>1, <5>2
      <4>3. ASSUME NEW j \in DOMAIN sent', NEW k \in DOMAIN sent', j < k
            PROVE  starts'[j] < starts'[k]
        <5>1. j \in DOMAIN sent
          BY <4>3, <3>4
        <5>2. CASE k = Len(sent) + 1
          BY <5>1, <5>2, <3>4 DEF StartsGrow
        <5>3. CASE k # Len(sent) + 1
          <6>1. k \in DOMAIN sent
            BY <5>3, <3>4
          <6> QED BY <4>3, <5>1, <6>1, <3>4 DEF StartsGrow
        <5> QED BY <5>2, <5>3
      <4>4. ASSUME NEW k \in DOMAIN sent' PROVE starts'[k] < written'
        BY <4>1, <4>2
      <4> QED BY <4>3, <4>4 DEF StartsGrow
    <3>7. BufferAligned'
      BY <3>2, <3>4 DEF BufferAligned, FramingTypeOK
    <3> QED BY <3>3, <3>5, <3>6, <3>7
  <2>2. ASSUME NEW upto \in got + 1 .. written, ConnReadCb(upto) PROVE FramingInv'
    BY <2>2 DEF ConnReadCb, FramingTypeOK, FramesAdjoin, StartsGrow, BufferAligned, streamVars, objVars
  <2>3. ASSUME NEW out \in Outcomes, Dismantle(out) PROVE FramingInv'
    <3> DEFINE n == Len(delivered) + 1
    <3>1. Complete
      BY <2>3 DEF Dismantle
    <3>2. /\ Len(delivered) < Len(sent)
          /\ DeCode(Head_) = sent[n].len /\ Head_.id = sent[n].id
          /\ sent[n].len > 0
          /\ sent[n].len + NF_HEAD_LENGTH <= GetBuffLen
      BY <3>1, FrontIsNext
    <3>3. /\ UNCHANGED <<sent, starts, written, got, freed, reading>>
          /\ delivered' = Append(delivered, [id |-> sent[n].id, len |-> sent[n].len])
          /\ base' = base + (sent[n].len + NF_HEAD_LENGTH)
          /\ bNeedRemove' = (bNeedRemove \/ out = "closes")
      BY <2>3, <3>2 DEF Dismantle, RemoveBuff, streamVars
    <3>4. n \in DOMAIN sent /\ sent[n] \in Frames /\ sent[n].len \in Nat
      <4>1. n \in DOMAIN sent /\ sent[n] \in Frames
        BY <3>2 DEF FramingTypeOK
      <4> QED BY <4>1, LengthSurvives DEF Frames
    <3>5. [id |-> sent[n].id, len |-> sent[n].len] = sent[n]
      BY <3>4 DEF Frames
    <3>6. bNeedRemove' \in BOOLEAN
      BY <3>3
    <3>7. FramingTypeOK'
      BY <3>2, <3>3, <3>4, <3>5, <3>6 DEF FramingTypeOK, GetBuffLen, NF_HEAD_LENGTH
    <3>8. FramesAdjoin' /\ StartsGrow'
      BY <3>3 DEF FramesAdjoin, StartsGrow
    <3>9. BufferAligned'
      <4>1. base = starts[n]
        BY <3>2 DEF BufferAligned, FramingTypeOK
      <4>2. Len(delivered') = n
        BY <3>3, <3>4, <3>5 DEF FramingTypeOK
      <4>3. IF n = Len(sent) THEN written = base' ELSE starts[n + 1] = base'
        <5>1. starts[n] \in Nat
          BY <3>4 DEF FramingTypeOK
        <5>2. base' = starts[n] + NF_HEAD_LENGTH + sent[n].len
          BY <5>1, <4>1, <3>3, <3>4 DEF NF_HEAD_LENGTH
        <5> QED BY <5>2, <3>4 DEF FramesAdjoin
      <4> QED BY <3>2, <3>3, <4>2, <4>3 DEF BufferAligned, FramingTypeOK
    <3> QED BY <3>7, <3>8, <3>9
  <2>4. CASE DismantleStops
    BY <2>4 DEF DismantleStops, FramingTypeOK, FramesAdjoin, StartsGrow, BufferAligned, streamVars, objVars
  <2>5. CASE CloseNetObject
    BY <2>5 DEF CloseNetObject, FramingTypeOK, FramesAdjoin, StartsGrow, BufferAligned, streamVars
  <2>6. CASE ExecuteClose
    BY <2>6 DEF ExecuteClose, FramingTypeOK, FramesAdjoin, StartsGrow, BufferAligned, streamVars
  <2>7. CASE UNCHANGED framingVars
    BY <2>7 DEF framingVars, streamVars, objVars, FramingTypeOK, FramesAdjoin, StartsGrow, BufferAligned
  <2> QED BY <2>1, <2>2, <2>3, <2>4, <2>5, <2>6, <2>7 DEF FramingNext
<1> QED BY <1>1, <1>2, PTL DEF FramingSpec

(* Nothing leaves the buffer that did not enter it, nothing enters that was *)
(* not sent, for every set of ids and of lengths whose frames fit an int.   *)
THEOREM FramingTypeCorrect == FramingSpec => []FramingTypeOK
<1>1. FramingInv => FramingTypeOK
  BY DEF FramingInv
<1> QED BY <1>1, FramingInvariant, PTL

(* Every step of the framing is a step of the channel of messages or none:  *)
(* conn_readcb and Dismantle deliver whole messages, once and in order.     *)
THEOREM FramingIsChannel == FramingSpec => FramingImplementsChannel
<1>1. FramingInit => Channel!ChannelInit
  BY DEF FramingInit, Channel!ChannelInit
<1>2. FramingInv /\ [FramingNext]_framingVars
        => [Channel!ChannelNext]_(Channel!channelVars)
  <2> SUFFICES ASSUME FramingInv, [FramingNext]_framingVars
               PROVE  Channel!ChannelNext \/ UNCHANGED <<sent, delivered>>
    BY DEF Channel!channelVars
  <2>1. ASSUME NEW i \in MsgIds, NEW n \in BodyLengths, SendMsgWithOutHead(i, n)
        PROVE  Channel!ChannelNext
    <3>1. [id |-> WireId(i), len |-> n] \in Frames
      BY WireIdType DEF Frames
    <3> QED BY <2>1, <3>1 DEF SendMsgWithOutHead, Channel!ChannelNext, Channel!Send
  <2>2. ASSUME NEW out \in Outcomes, Dismantle(out) PROVE Channel!ChannelNext
    <3> DEFINE n == Len(delivered) + 1
    <3>1. Complete
      BY <2>2 DEF Dismantle
    <3>2. /\ Len(delivered) < Len(sent)
          /\ DeCode(Head_) = sent[n].len /\ Head_.id = sent[n].id
          /\ sent[n].len > 0 /\ sent[n].id > 0
      BY <3>1, FrontIsNext
    <3>3. sent[n] \in Frames /\ sent[n].len # 0 /\ sent[n].id # 0
      <4>1. sent[n] \in Frames
        BY <3>2 DEF FramingInv, FramingTypeOK
      <4> QED BY <3>2, <4>1, LengthSurvives, FramingAssumption DEF Frames
    <3>4. [id |-> sent[n].id, len |-> sent[n].len] = sent[n]
      BY <3>3 DEF Frames
    <3>5. delivered' = Append(delivered, sent[n]) /\ sent' = sent
      BY <2>2, <3>2, <3>4 DEF Dismantle, streamVars
    <3> QED BY <3>2, <3>3, <3>5 DEF Channel!ChannelNext, Channel!Receive, Channel!Normal
  <2>3. ASSUME NEW upto \in got + 1 .. written, ConnReadCb(upto)
        PROVE  UNCHANGED <<sent, delivered>>
    BY <2>3 DEF ConnReadCb, streamVars
  <2>4. ASSUME DismantleStops \/ CloseNetObject \/ ExecuteClose \/ UNCHANGED framingVars
        PROVE  UNCHANGED <<sent, delivered>>
    BY <2>4 DEF DismantleStops, CloseNetObject, ExecuteClose, framingVars, streamVars
  <2> QED BY <2>1, <2>2, <2>3, <2>4 DEF FramingNext
<1> QED
  BY <1>1, <1>2, FramingInvariant, PTL
  DEF FramingSpec, FramingImplementsChannel, Channel!ChannelSpec
-----------------------------------------------------------------------------
(* The messages handed out are the first of those sent, none of them without *)
(* a body or with the id 0.                                                  *)
DeliveredInOrder ==
    \A k \in 1 .. Len(delivered) : delivered[k] = sent[k] /\ Channel!Normal(sent[k])

(* The bytes of frame k have been appended to the buffer, and no frame up to *)
(* it makes Dismantle stop.                                                  *)
CanComeOut(k) ==
    /\ \A j \in 1 .. k : Channel!Normal(sent[j])
    /\ starts[k] + NF_HEAD_LENGTH + sent[k].len <= got

(* Between two calls of conn_readcb no complete message waits in the buffer, *)
(* also not behind another or after the connection was marked for closing.   *)
NoMessageWaits ==
    ~ reading => \A k \in DOMAIN sent : CanComeOut(k) => k <= Len(delivered)

LEMMA FramingShape ==
    ASSUME FramingInv
    PROVE  /\ Len(sent) \in Nat /\ Len(delivered) \in Nat /\ Len(delivered) <= Len(sent)
           /\ DOMAIN sent = 1 .. Len(sent)
           /\ written \in Nat /\ got \in Nat /\ base \in Nat /\ base <= got /\ got <= written
           /\ \A k \in DOMAIN sent : /\ sent[k] \in Frames /\ sent[k].len \in Nat
                                     /\ sent[k].id \in Nat /\ starts[k] \in Nat
<1>1. ASSUME NEW k \in DOMAIN sent
      PROVE  sent[k] \in Frames /\ sent[k].len \in Nat /\ sent[k].id \in Nat /\ starts[k] \in Nat
  <2>1. sent[k] \in Frames /\ starts[k] \in Nat
    BY DEF FramingInv, FramingTypeOK
  <2>2. sent[k].len \in BodyLengths /\ sent[k].id \in 0 .. IdSpan - 1
    BY <2>1 DEF Frames
  <2>3. sent[k].len \in Nat
    BY <2>2, LengthSurvives
  <2>4. sent[k].id \in Nat
    BY <2>2, FramingAssumption
  <2> QED BY <2>1, <2>3, <2>4
<1> QED BY <1>1 DEF FramingInv, FramingTypeOK, BufferAligned

(* The frames end in the order in which they start. *)
LEMMA EndsGrow ==
    ASSUME FramingInv, NEW j \in DOMAIN sent, NEW k \in DOMAIN sent, j <= k
    PROVE  starts[j] + NF_HEAD_LENGTH + sent[j].len <= starts[k] + NF_HEAD_LENGTH + sent[k].len
<1>1. CASE j = k
  BY <1>1, FramingShape DEF NF_HEAD_LENGTH
<1>2. CASE j < k
  <2>1. j # Len(sent) /\ j + 1 \in DOMAIN sent /\ j + 1 <= k
    BY <1>2, FramingShape
  <2>2. starts[j + 1] = starts[j] + NF_HEAD_LENGTH + sent[j].len
    BY <2>1 DEF FramingInv, FramesAdjoin
  <2>3. starts[j + 1] <= starts[k]
    BY <2>1, FramingShape DEF FramingInv, StartsGrow
  <2>4. starts[j + 1] \in Nat /\ starts[k] \in Nat /\ sent[k].len \in Nat
    BY <2>1, FramingShape
  <2> QED BY <2>2, <2>3, <2>4 DEF NF_HEAD_LENGTH
<1> QED BY <1>1, <1>2, FramingShape

(* A message that can come out and did not makes the front complete. *)
LEMMA NextIsComplete ==
    ASSUME FramingInv, NEW k \in DOMAIN sent, CanComeOut(k), Len(delivered) < k
    PROVE  Complete
<1> DEFINE n == Len(delivered) + 1
<1>1. n \in DOMAIN sent /\ n <= k
  BY FramingShape
<1>2. base = starts[n] /\ AtHead(n)
  BY <1>1, FramingShape DEF FramingInv, BufferAligned, AtHead
<1>3. Channel!Normal(sent[n]) /\ starts[n] + NF_HEAD_LENGTH + sent[n].len <= got
  <2>1. starts[n] + NF_HEAD_LENGTH + sent[n].len <= starts[k] + NF_HEAD_LENGTH + sent[k].len
    BY <1>1, EndsGrow
  <2>2. Channel!Normal(sent[n])
    <3>1. \A j \in 1 .. k : Channel!Normal(sent[j])
      BY DEF CanComeOut
    <3>2. n \in 1 .. k
      BY <1>1, FramingShape
    <3> QED BY <3>1, <3>2
  <2>3. starts[n] + NF_HEAD_LENGTH + sent[n].len <= got
    <3>1. starts[k] + NF_HEAD_LENGTH + sent[k].len <= got
      BY DEF CanComeOut
    <3>2. /\ starts[n] \in Nat /\ sent[n].len \in Nat /\ got \in Nat
          /\ starts[k] \in Nat /\ sent[k].len \in Nat
      BY <1>1, FramingShape
    <3> HIDE DEF n
    <3> QED BY <2>1, <3>1, <3>2 DEF NF_HEAD_LENGTH
  <2> QED BY <2>2, <2>3
<1>4. sent[n].len \in Nat /\ sent[n].len > 0 /\ sent[n].id \in Nat /\ sent[n].id > 0
  BY <1>1, <1>3, FramingShape DEF Channel!Normal
<1>5. GetBuffLen \in Nat /\ GetBuffLen >= NF_HEAD_LENGTH + sent[n].len
  BY <1>1, <1>2, <1>3, FramingShape DEF GetBuffLen, NF_HEAD_LENGTH
<1>6. \A j \in DOMAIN sent : AtHead(j) => j = n
  BY <1>1, <1>2, FramingShape DEF FramingInv, StartsGrow, AtHead
<1>7. Head_ = [id |-> sent[n].id, size |-> WireSize(sent[n].len)]
  <2>1. (CHOOSE j \in DOMAIN sent : AtHead(j)) = n
    BY <1>1, <1>2, <1>6
  <2> QED BY <2>1 DEF Head_
<1>8. BodyLength(Head_.size) = sent[n].len
  <2>1. sent[n].len \in BodyLengths
    BY <1>1, FramingShape DEF Frames
  <2> QED BY <1>7, <2>1, LengthSurvives
<1>9. DeCode(Head_) = sent[n].len
  BY <1>4, <1>5, <1>8 DEF DeCode, NF_HEAD_LENGTH
<1> QED BY <1>1, <1>2, <1>4, <1>5, <1>7, <1>9 DEF Complete, NF_HEAD_LENGTH

(* What has come out is the longest run of messages that could: all that    *)
(* were sent before it, whole and in order, and no complete one waits for   *)
(* the next chunk (conn_readcb, Dismantle).                                 *)
THEOREM NothingWaitsInBuffer == FramingSpec => [](DeliveredInOrder /\ NoMessageWaits)
<1> DEFINE Inv == DeliveredInOrder /\ NoMessageWaits
<1>1. FramingInit => Inv
  BY DEF FramingInit, DeliveredInOrder, NoMessageWaits
<1>2. FramingInv /\ Inv /\ [FramingNext]_framingVars => Inv'
  <2> SUFFICES ASSUME FramingInv, Inv, [FramingNext]_framingVars PROVE Inv'
    OBVIOUS
  <2>1. ASSUME NEW i \in MsgIds, NEW n \in BodyLengths, SendMsgWithOutHead(i, n)
        PROVE  Inv'
    <3>1. /\ sent' = Append(sent, [id |-> WireId(i), len |-> n])
          /\ starts' = Append(starts, written)
          /\ UNCHANGED <<got, delivered, reading>>
      BY <2>1 DEF SendMsgWithOutHead
    <3>2. /\ DOMAIN sent' = 1 .. Len(sent) + 1
          /\ \A k \in DOMAIN sent : sent'[k] = sent[k] /\ starts'[k] = starts[k]
          /\ starts'[Len(sent) + 1] = written /\ sent'[Len(sent) + 1].len = n
      BY <3>1, FramingShape DEF FramingInv, FramingTypeOK
    <3>3. DeliveredInOrder'
      BY <3>1, <3>2, FramingShape DEF DeliveredInOrder
    <3>4. ASSUME ~ reading', NEW k \in DOMAIN sent', CanComeOut(k)' PROVE k <= Len(delivered')
      <4>0. /\ starts'[k] + NF_HEAD_LENGTH + sent'[k].len <= got
            /\ \A j \in 1 .. k : Channel!Normal(sent'[j])
        BY <3>1, <3>4 DEF CanComeOut, Channel!Normal
      <4>1. k \in DOMAIN sent
        <5>1. n \in Nat
          BY LengthSurvives
        <5>2. k # Len(sent) + 1
          BY <3>2, <4>0, <5>1, FramingShape DEF NF_HEAD_LENGTH
        <5> QED BY <3>2, <5>2, FramingShape
      <4>2. CanComeOut(k)
        <5>1. \A j \in 1 .. k : j \in DOMAIN sent
          BY <4>1, FramingShape
        <5> QED BY <3>2, <4>0, <4>1, <5>1 DEF CanComeOut
      <4> QED BY <3>1, <3>4, <4>1, <4>2 DEF NoMessageWaits
    <3> QED BY <3>3, <3>4 DEF NoMessageWaits
  <2>2. ASSUME NEW upto \in got + 1 .. written, ConnReadCb(upto) PROVE Inv'
    BY <2>2 DEF ConnReadCb, streamVars, DeliveredInOrder, NoMessageWaits
  <2>3. ASSUME NEW out \in Outcomes, Dismantle(out) PROVE Inv'
    <3> DEFINE n == Len(delivered) + 1
    <3>1. Complete /\ reading' /\ UNCHANGED streamVars
      BY <2>3 DEF Dismantle
    <3>2. /\ Len(delivered) < Len(sent)
          /\ DeCode(Head_) = sent[n].len /\ Head_.id = sent[n].id
          /\ sent[n].len > 0 /\ Head_.id > 0
      BY <3>1, FrontIsNext
    <3>3. n \in DOMAIN sent /\ sent[n] \in Frames /\ Channel!Normal(sent[n])
      BY <3>2, FramingShape DEF Channel!Normal
    <3>4. delivered' = Append(delivered, sent[n])
      <4>1. [id |-> sent[n].id, len |-> sent[n].len] = sent[n]
        BY <3>3 DEF Frames
      <4> QED BY <2>3, <3>2, <4>1 DEF Dismantle
    <3>5. /\ Len(delivered') = n /\ delivered'[n] = sent[n]
          /\ \A k \in 1 .. Len(delivered) : delivered'[k] = delivered[k]
      BY <3>3, <3>4 DEF FramingInv, FramingTypeOK
    <3>6. DeliveredInOrder'
      BY <3>1, <3>3, <3>5, FramingShape DEF DeliveredInOrder, streamVars
    <3> QED BY <3>1, <3>6 DEF NoMessageWaits
  <2>4. CASE DismantleStops
    <3>1. ~ Complete /\ UNCHANGED <<streamVars, got, delivered>>
      BY <2>4 DEF DismantleStops
    <3>2. \A k \in DOMAIN sent : CanComeOut(k) => k <= Len(delivered)
      BY <3>1, NextIsComplete, FramingShape
    <3> QED BY <3>1, <3>2 DEF streamVars, DeliveredInOrder, NoMessageWaits, CanComeOut
  <2>5. CASE CloseNetObject \/ ExecuteClose \/ UNCHANGED framingVars
    BY <2>5 DEF CloseNetObject, ExecuteClose, framingVars, streamVars, DeliveredInOrder,
                NoMessageWaits, CanComeOut
  <2> QED BY <2>1, <2>2, <2>3, <2>4, <2>5 DEF FramingNext
<1> QED BY <1>1, <1>2, FramingInvariant, PTL DEF FramingSpec
=============================================================================

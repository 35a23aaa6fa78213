------------------------------- MODULE Framing -------------------------------
(***************************************************************************)
(* One direction of a connection between two NFNets: SendMsgWithOutHead    *)
(* puts a head before every message, TCP delivers the bytes in order and   *)
(* in pieces of any size, conn_readcb appends every piece to the           *)
(* NetObject's buffer and Dismantle takes whole messages from its front.   *)
(*                                                                         *)
(* The stream is described by its offsets: frame k occupies the bytes from *)
(* starts[k] on, the first `got' bytes have been appended to mstrBuff and  *)
(* the first `base' of them have been removed from it again.               *)
(***************************************************************************)
EXTENDS Integers, Sequences

CONSTANTS
    MsgIds,         \* the ids callers pass to SendMsgWithOutHead
    BodyLengths,    \* the lengths of the bodies they pass
    IdSpan,         \* 2^16, ids on the wire are uint16_t
    SizeSpan,       \* 2^32, sizes on the wire are uint32_t
    MaxInt,         \* 2^31 - 1, EnCode, DeCode and Dismantle hold sizes in an int
    MaxSends        \* bound: messages sent

NF_HEAD_LENGTH == 6

ASSUME FramingAssumption ==
    /\ MsgIds \subseteq Nat
    /\ IdSpan \in Nat \ {0}
    /\ SizeSpan \in Nat \ {0}
    /\ MaxInt \in Nat /\ MaxInt < SizeSpan
    /\ BodyLengths \subseteq 0 .. (MaxInt - NF_HEAD_LENGTH)    \* longer ones overflow it
    /\ MaxSends \in Nat

VARIABLES
    sent,           \* the frames written to the stream: [id, len]
    starts,         \* per frame, the offset of its head in the stream
    written,        \* bytes written to the stream
    got,            \* bytes appended to mstrBuff so far
    base,           \* bytes removed from mstrBuff so far
    delivered,      \* the messages handed to mRecvCB
    bNeedRemove,    \* the receiver's NetObject is marked for closing
    freed,          \* and has been deleted
    reading         \* conn_readcb is in its loop over Dismantle

streamVars == <<sent, starts, written>>
objVars == <<bNeedRemove, freed>>
framingVars == <<streamVars, got, base, delivered, objVars, reading>>

FramingInit ==
    /\ sent = <<>> /\ starts = <<>> /\ written = 0
    /\ got = 0 /\ base = 0
    /\ delivered = <<>>
    /\ bNeedRemove = FALSE /\ freed = FALSE
    /\ reading = FALSE

-----------------------------------------------------------------------------
(* The head EnCode writes: the id as int16_t and then uint16_t, the size    *)
(* with the head's own length.                                              *)
WireId(nMsgID) == nMsgID % IdSpan
WireSize(nLen) == (nLen + NF_HEAD_LENGTH) % SizeSpan

(* The body length DeCode finds in a head. *)
BodyLength(size) == (size - NF_HEAD_LENGTH) % SizeSpan

SendMsgWithOutHead(nMsgID, nLen) ==
    /\ Len(sent) < MaxSends
    /\ sent' = Append(sent, [id |-> WireId(nMsgID), len |-> nLen])
    /\ starts' = Append(starts, written)
    /\ written' = written + NF_HEAD_LENGTH + nLen
    /\ UNCHANGED <<got, base, delivered, objVars, reading>>

(* conn_readcb takes over all that has arrived, up to the offset upto. *)
ConnReadCb(upto) ==
    /\ ~reading /\ ~freed
    /\ ~bNeedRemove
    /\ got' = upto
    /\ reading' = TRUE
    /\ UNCHANGED <<streamVars, base, delivered, objVars>>

-----------------------------------------------------------------------------
GetBuffLen == got - base

(* What DeCode reads at the front of the buffer; anywhere but at the start  *)
(* of a frame it would read bytes of a body.                                *)
AtHead(k) == k \in DOMAIN sent /\ starts[k] = base
Head_ == LET k == CHOOSE k \in DOMAIN sent : AtHead(k)
         IN  [id |-> sent[k].id, size |-> WireSize(sent[k].len)]

DeCode_Partial(h) ==                \* slip: the test of -3 is missing
    BodyLength(h.size)

DeCode(h) ==
    IF BodyLength(h.size) > GetBuffLen - NF_HEAD_LENGTH THEN -3 ELSE BodyLength(h.size)

(* A message can be taken: there is more than a head, the body is complete  *)
(* and not empty, and the id is not 0.                                      *)
Complete ==
    /\ GetBuffLen > NF_HEAD_LENGTH
    /\ \E k \in DOMAIN sent : AtHead(k)
    /\ DeCode(Head_) > 0
    /\ Head_.id > 0

(* A message handler returns, throws or closes the connection; catch (...)  *)
(* comes back to the line that removes the message from the buffer.         *)
Outcomes == {"returns", "throws", "closes"}

RemoveBuff_NotAfterThrow(n, out) == \* slip: RemoveBuff inside the try block
    base' = IF out = "throws" THEN base ELSE base + n

RemoveBuff(n, out) == base' = base + n

Dismantle(out) ==
    /\ reading
    /\ Complete
    /\ delivered' = Append(delivered, [id |-> Head_.id, len |-> DeCode(Head_)])
    /\ RemoveBuff(DeCode(Head_) + NF_HEAD_LENGTH, out)
    /\ bNeedRemove' = (bNeedRemove \/ out = "closes")
    /\ UNCHANGED <<streamVars, got, freed, reading>>

DismantleStops_Early ==             \* slip: if for while around Dismantle
    /\ reading
    /\ reading' = FALSE
    /\ UNCHANGED <<streamVars, got, base, delivered, objVars>>

DismantleStops ==
    /\ reading
    /\ ~Complete
    /\ reading' = FALSE
    /\ UNCHANGED <<streamVars, got, base, delivered, objVars>>

(* The connection ends, or its owner closes it. *)
CloseNetObject ==
    /\ ~reading /\ ~bNeedRemove
    /\ bNeedRemove' = TRUE
    /\ UNCHANGED <<streamVars, got, base, delivered, freed, reading>>

(* ExecuteClose, before the next pass of the event loop. *)
ExecuteClose ==
    /\ ~reading /\ bNeedRemove /\ ~freed
    /\ freed' = TRUE
    /\ UNCHANGED <<streamVars, got, base, delivered, bNeedRemove, reading>>

FramingNext ==
    \/ \E nMsgID \in MsgIds, nLen \in BodyLengths : SendMsgWithOutHead(nMsgID, nLen)
    \/ \E upto \in got + 1 .. written : ConnReadCb(upto)
    \/ \E out \in Outcomes : Dismantle(out)
    \/ DismantleStops
    \/ CloseNetObject
    \/ ExecuteClose

FramingSpec == FramingInit /\ [][FramingNext]_framingVars

(* TCP delivers what was written, libevent calls conn_readcb while there is *)
(* something to read, and the loop over Dismantle runs to its end.          *)
FramingFairness ==
    /\ WF_framingVars(\E upto \in got + 1 .. written : ConnReadCb(upto))
    /\ WF_framingVars(\E out \in Outcomes : Dismantle(out))
    /\ WF_framingVars(DismantleStops)

FramingFairSpec == FramingSpec /\ FramingFairness

-----------------------------------------------------------------------------
Frames == [id : 0 .. IdSpan - 1, len : BodyLengths]

Channel == INSTANCE MsgChannel WITH Messages <- Frames, received <- delivered

(* Types, and the counters in their order: nothing is removed from the      *)
(* buffer that was not appended to it, nothing appended that was not sent.  *)
FramingTypeOK ==
    /\ sent \in Seq(Frames)
    /\ starts \in Seq(Nat) /\ Len(starts) = Len(sent)
    /\ delivered \in Seq(Frames)
    /\ written \in Nat /\ got \in Nat /\ base \in Nat
    /\ base <= got /\ got <= written
    /\ bNeedRemove \in BOOLEAN /\ freed \in BOOLEAN /\ reading \in BOOLEAN

(* However the stream is cut, whatever a handler does and whenever the      *)
(* connection is closed, messages come out whole, once and in order: the    *)
(* framing implements the channel of messages.                              *)
FramingImplementsChannel == Channel!ChannelSpec

(* A message is handed out at last, if it and all before it have a body and *)
(* an id other than 0, unless the connection is closed: no chunk boundary   *)
(* leaves a complete message waiting in the buffer.                         *)
CompleteFramesArrive ==
    \A k \in 1 .. MaxSends :
        (k <= Len(sent) /\ \A j \in 1 .. k : Channel!Normal(sent[j]))
            ~> (k <= Len(delivered) \/ bNeedRemove)
=============================================================================

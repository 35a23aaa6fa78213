----------------------------- MODULE MsgChannel -----------------------------
(***************************************************************************)
(* What NFNet promises to whoever sends and receives over one connection:  *)
(* messages come out whole, once, and in the order they were sent, however *)
(* TCP cuts the bytes.  A message that has no body or the id 0 does not    *)
(* come out, and nothing behind it does.                                   *)
(***************************************************************************)
EXTENDS Naturals, Sequences

CONSTANT Messages   \* records with an id and the length of a body, len

VARIABLES sent, received

channelVars == <<sent, received>>

Normal(m) == m.id # 0 /\ m.len # 0

ChannelInit == sent = <<>> /\ received = <<>>

Send ==
    /\ \E m \in Messages : sent' = Append(sent, m)
    /\ UNCHANGED received

Receive ==
    /\ Len(received) < Len(sent)
    /\ Normal(sent[Len(received) + 1])
    /\ received' = Append(received, sent[Len(received) + 1])
    /\ UNCHANGED sent

ChannelNext == Send \/ Receive

ChannelSpec == ChannelInit /\ [][ChannelNext]_channelVars
=============================================================================

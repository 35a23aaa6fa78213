----------------------------- MODULE MCChatRoute -----------------------------
EXTENDS ChatRoute, TLC
\* What bufferevent_sock.c reports for an accepted socket: the side is always set.
SockEvents == {{"READING", "EOF"}, {"WRITING", "ERROR"}}
\* A word the switch of OnSocketClientEvent ignores and one it is written for.
MixedEvents == {{"READING", "EOF"}, {"EOF"}}
=============================================================================

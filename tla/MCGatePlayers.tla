---------------------------- MODULE MCGatePlayers ----------------------------
EXTENDS GatePlayers, TLC
\* What bufferevent_sock.c reports for an accepted socket: the side is always set.
SockEvents == {{"READING", "EOF"}, {"WRITING", "ERROR"}}
\* The same, and one word the switch of OnSocketClientEvent is written for, so
\* that OnClientDisconnect runs between disconnects that are missed.
MixedEvents == {{"READING", "EOF"}, {"WRITING", "ERROR"}, {"EOF"}}
=============================================================================

---------------------------- MODULE MCNodeRegistry ----------------------------
EXTENDS NodeRegistry, TLC
\* What bufferevent_sock.c reports for an accepted socket.
McEvents == {{"READING", "EOF"}, {"WRITING", "ERROR"}}
=============================================================================

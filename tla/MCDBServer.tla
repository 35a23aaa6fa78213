----------------------------- MODULE MCDBServer -----------------------------
EXTENDS DBServer, TLC
=============================================================================

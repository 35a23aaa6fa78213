----------------------------- MODULE MCNetClient -----------------------------
EXTENDS NetClient, TLC
\* The master's id is 0 (the key NodeID is missing in server_conf.json); 1 and 2 are gates.
MCHash == (0 :> (0 :> 5 @@ 1 :> 2)) @@ (1 :> (0 :> 1 @@ 1 :> 4)) @@ (2 :> (0 :> 4 @@ 1 :> 6))
MCType == (0 :> "MASTER") @@ (1 :> "GATE") @@ (2 :> "GATE")
MCWirings == BOOLEAN
=============================================================================

------------------------------ MODULE Membership ------------------------------
(***************************************************************************)
(* What the master's register promises, without sockets: servers join a    *)
(* group over a session of their own, every join is announced to all the   *)
(* members, and a server is in the group until the session it joined over  *)
(* last has ended.  Module NodeRegistry implements it.                     *)
(***************************************************************************)
CONSTANTS Ids,          \* the servers
          Sessions      \* what they join over; no session is used again

VARIABLES member,       \* a member's id -> the session it joined over last
          joined,       \* the sessions somebody has joined over
          ended,        \* the sessions that have ended
          view          \* session -> the group as last announced to it

vars == <<member, joined, ended, view>>

Init ==
    /\ member = [i \in {} |-> 0]
    /\ joined = {}
    /\ ended = {}
    /\ view = [s \in Sessions |-> [i \in {} |-> s]]

(* A server joins, or joins again, over a session that is fresh and open;  *)
(* it and all the other members are told the new group.                    *)
Join(id, s) ==
    /\ s \notin joined \cup ended
    /\ joined' = joined \cup {s}
    /\ member' = [i \in DOMAIN member \cup {id} |-> IF i = id THEN s ELSE member[i]]
    /\ view' = [c \in Sessions |->
                   IF \E i \in DOMAIN member' : member'[i] = c THEN member' ELSE view[c]]
    /\ UNCHANGED ended

(* A session ends: whoever is in the group over it leaves, nobody else.    *)
End(s) ==
    /\ s \notin ended
    /\ ended' = ended \cup {s}
    /\ member' = [i \in {j \in DOMAIN member : member[j] # s} |-> member[i]]
    /\ UNCHANGED <<joined, view>>

Next == \E s \in Sessions : End(s) \/ \E id \in Ids : Join(id, s)

Spec == Init /\ [][Next]_vars
=============================================================================

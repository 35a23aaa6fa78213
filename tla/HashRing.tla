------------------------------- MODULE HashRing -------------------------------
(***************************************************************************)
(* The consistent-hash ring of NFConsistentHashMapEx (src/Common/NFComm/   *)
(* NFCore/NFMapEx.hpp) and NFConsistentHash (NFConsistentHash.hpp): a ring *)
(* is the record of its members (mObjectList) and of the points that lead  *)
(* to them (mxNodes, from hash values to servers).                         *)
(*                                                                         *)
(* Every member puts mnNodeCount points on the ring, at the CRC32 of       *)
(* "id-index".  Two servers may share a hash value; the first to insert it *)
(* holds the point, and either of them takes it away when it leaves.       *)
(***************************************************************************)
EXTENDS Integers

CONSTANTS
    Ids,            \* server ids
    NodeCount,      \* mnNodeCount
    Hash,           \* Hash[id][i]: CRC32 of "id-i"
    NoNode          \* what GetSuitNode finds on an empty ring

ASSUME HashRingAssumption ==
    /\ Ids \subseteq Nat
    /\ NodeCount \in Nat
    /\ Hash \in [Ids -> [0 .. NodeCount - 1 -> Nat]]
    /\ NoNode \notin Ids

Points(id) == {Hash[id][i] : i \in 0 .. NodeCount - 1}

(* Hash values two servers have in common are rare, and every server has   *)
(* one of its own.                                                         *)
Private(id) == {h \in Points(id) : \A other \in Ids \ {id} : h \notin Points(other)}

ASSUME PrivatePointsAssumption == \A id \in Ids : Private(id) # {}

EmptyRing == [members |-> {}, mxNodes |-> [h \in {} |-> NoNode]]

(* AddElement: a member already there is left alone; a point already there *)
(* keeps its server.                                                       *)
AddElement(ring, id) ==
    IF id \in ring.members THEN ring ELSE
    [members |-> ring.members \cup {id},
     mxNodes |-> [h \in DOMAIN ring.mxNodes \cup Points(id) |->
                     IF h \in DOMAIN ring.mxNodes THEN ring.mxNodes[h] ELSE id]]

(* RemoveElement erases whatever sits at the member's hash values. *)
RemoveElement_OneShort(ring, id) ==  \* slip: the loop over the points stops one early
    [members |-> ring.members \ {id},
     mxNodes |-> [h \in DOMAIN ring.mxNodes \ {Hash[id][i] : i \in 0 .. NodeCount - 2} |->
                     ring.mxNodes[h]]]

RemoveElement(ring, id) ==
    IF id \notin ring.members THEN ring ELSE
    [members |-> ring.members \ {id},
     mxNodes |-> [h \in DOMAIN ring.mxNodes \ Points(id) |-> ring.mxNodes[h]]]

Lowest(hashes) == CHOOSE h \in hashes : \A g \in hashes : h <= g

(* lower_bound(key), wrapping to begin(). *)
GetSuitNode(ring, key) ==
    LET all   == DOMAIN ring.mxNodes
        after == {h \in all : h >= key}
    IN  IF all = {} THEN NoNode
        ELSE ring.mxNodes[Lowest(IF after = {} THEN all ELSE after)]

(* The server of the point, if the map of members still has it. *)
GetElementBySuit(ring, key) ==
    LET node == GetSuitNode(ring, key)
    IN  IF node \in ring.members THEN node ELSE NoNode
=============================================================================

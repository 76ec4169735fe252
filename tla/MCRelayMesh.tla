------------------------------ MODULE MCRelayMesh ------------------------------
(* RelayMesh on three peers, of which p3 is the direct or the dialed one.    *)
EXTENDS RelayMesh, TLC

CONSTANTS p1, p2, p3

MCPeer == {p1, p2, p3}
MCPublishThreshold == -1

(* The score assignments: all zero, or one peer away from zero. *)
Flat == [p \in MCPeer |-> 0]
MCScores == {Flat} \cup {[Flat EXCEPT ![p1] = s] : s \in {-2, -1, 1}}

=============================================================================

----------------------------- MODULE MCRelayGossip -----------------------------
(* RelayGossip on two peers and two messages that may change places. *)
EXTENDS RelayGossip, TLC

CONSTANTS p1, p2

MCPeer == {p1, p2}
MCThreshold == -1

Flat == [p \in MCPeer |-> 0]
MCScores == {Flat, [Flat EXCEPT ![p1] = -1]}


MessageSymmetry == Permutations(Message)

===============================================================================

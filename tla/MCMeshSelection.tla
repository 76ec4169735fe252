---------------------------- MODULE MCMeshSelection ----------------------------
(* MeshSelection on five peers, of which the node dialed some. *)
EXTENDS MeshSelection, TLC

CONSTANTS p1, p2, p3, p4, p5

=============================================================================

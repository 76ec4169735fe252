------------------------------ MODULE MCWakuNode ------------------------------
(* WakuNode with two peers and one or two pushed messages. *)
EXTENDS WakuNode, TLC
=============================================================================

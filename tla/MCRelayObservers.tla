--------------------------- MODULE MCRelayObservers ---------------------------
(* RelayObservers with two observers, one content topic and one key. *)
EXTENDS RelayObservers, TLC

CONSTANTS t1, k1

MCSentAny == [topic : {t1, NoTopic}, lock : {k1, Clear}]

=============================================================================

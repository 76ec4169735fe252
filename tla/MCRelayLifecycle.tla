--------------------------- MODULE MCRelayLifecycle ---------------------------
(* RelayLifecycle with one observer, one content topic and one key. *)
EXTENDS RelayLifecycle, TLC

CONSTANTS t1, k1

MCSentAny == [topic : {t1, NoTopic}, lock : {k1, Clear}]

=============================================================================

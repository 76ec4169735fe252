-------------------------------- MODULE KeepAlive --------------------------------
(***************************************************************************)
(* The keep-alive timers of Waku (src/lib/waku.ts): an interval per peer   *)
(* that sends a libp2p ping and one that sends a message over relay,       *)
(* started and stopped by the events of the connection manager.            *)
(*                                                                         *)
(* An interval is started by one call and cleared by another that finds it *)
(* in a map.  Both are kept apart here: `timers' are the entries of the    *)
(* maps, `live' counts the intervals that fire.                            *)
(***************************************************************************)
EXTENDS Naturals

CONSTANTS
    Peer,            \* remote peers
    Undefined,       \* an option that is not given
    PingKeepAlive,   \* options.pingKeepAlive, in seconds
    RelayKeepAlive,  \* options.relayKeepAlive
    DefaultPing,     \* DefaultPingKeepAliveValueSecs
    DefaultRelay     \* DefaultRelayKeepAliveValueSecs

ASSUME PeriodAssumption ==
    /\ {PingKeepAlive, RelayKeepAlive} \subseteq Nat \cup {Undefined}
    /\ {DefaultPing, DefaultRelay} \subseteq Nat

Timer == {"ping", "relay"}

VARIABLES
    timers,  \* timers[k]: peers with an entry in the map of the timers of kind k
    live     \* live[k][p]: intervals of kind k that fire for p

keepAliveVars == <<timers, live>>

KeepAliveTypeOK ==
    /\ timers \in [Timer -> SUBSET Peer]
    /\ \A k \in Timer, p \in Peer : live[k][p] \in 0 .. 1

KeepAliveInit ==
    /\ timers = [k \in Timer |-> {}]
    /\ live = [k \in Timer |-> [p \in Peer |-> 0]]

Option(k) == IF k = "ping" THEN PingKeepAlive ELSE RelayKeepAlive
Default(k) == IF k = "ping" THEN DefaultPing ELSE DefaultRelay

(* options.x || Default: zero counts as not given. *)
Period(k) == IF Option(k) \in {0, Undefined} THEN Default(k) ELSE Option(k)

Enabled == {k \in Timer : Period(k) # 0}

(* The intervals of p that stopKeepAlive clears, and what it leaves. *)
Stopped(p) ==
    [k \in Timer |-> [live[k] EXCEPT ![p] = IF p \in timers[k] THEN @ - 1 ELSE @]]

(* Mutant of Restarted: the intervals of before are not stopped first. *)
RestartedOnTop(p) == live

(* startKeepAlive stops what there is "just in case". *)
Restarted(p) == Stopped(p)

StartKeepAlive(p) ==
    /\ timers' = [k \in Timer |->
                     IF k \in Enabled THEN timers[k] \cup {p} ELSE timers[k] \ {p}]
    /\ live' = [k \in Timer |->
                     IF k \in Enabled THEN [Restarted(p)[k] EXCEPT ![p] = @ + 1]
                     ELSE Restarted(p)[k]]

(* Mutant of StopKeepAlive: the relay timer is left alone. *)
StopPing(p) ==
    /\ timers' = [timers EXCEPT !["ping"] = @ \ {p}]
    /\ live' = [live EXCEPT !["ping"] = Stopped(p)["ping"]]

StopKeepAlive(p) ==
    /\ timers' = [k \in Timer |-> timers[k] \ {p}]
    /\ live' = Stopped(p)

=============================================================================

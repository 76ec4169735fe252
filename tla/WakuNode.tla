-------------------------------- MODULE WakuNode --------------------------------
(***************************************************************************)
(* A Waku node (src/lib/waku.ts) from create to stop: the bootstrap list,  *)
(* the start of libp2p and only then the listeners of the constructor, the *)
(* keep-alive timers that these maintain (KeepAlive), and light push over  *)
(* the same connections (LightPush).                                       *)
(*                                                                         *)
(* libp2p is external: its connection manager holds a list of connections  *)
(* per peer, emits peer:connect for each and peer:disconnect for the last. *)
(***************************************************************************)
EXTENDS KeepAlive, LightPush

CONSTANTS
    Topic,               \* pubsub topics
    PubSubTopic,         \* options.pubSubTopic
    DefaultPubSubTopic,
    MaxConns             \* bound on the connections to one peer

ASSUME NodeAssumption ==
    /\ DefaultPubSubTopic \in Topic /\ PubSubTopic \in Topic \cup {Undefined}
    /\ AnyPeer \notin Peer /\ NoPeer \notin Peer
    /\ MaxConns \in Nat \ {0}

VARIABLES
    phase,  \* progress of create, and stop
    conns,  \* conns[p]: connections of the connection manager to p
    early,  \* history: peers whose connections are all older than the listeners
    topic   \* the pubsub topic each protocol was constructed with

vars == <<keepAliveVars, registered, lightPushVars, phase, conns, early, topic>>

Protocol == {"relay", "store", "lightPush"}
Connected == {p \in Peer : conns[p] > 0}
Listening == phase \in {"running", "stopping"}

TypeOK ==
    /\ KeepAliveTypeOK
    /\ registered \subseteq Peer
    /\ push \in [Message -> {"none", "opening", "sent"} \cup Ended]
    /\ \A m \in Message : push[m] \in {"opening", "sent"} => server[m] \in Connected \/ m \in broken
    /\ verdict \in [Message -> Verdict \cup {"none"}] /\ broken \subseteq Message
    /\ phase \in {"bootstrapping", "starting", "running", "stopping", "failed"}
    /\ conns \in [Peer -> 0 .. MaxConns]
    /\ early \subseteq Connected
    /\ topic \in [Protocol -> Topic]

Init ==
    /\ KeepAliveInit /\ LightPushInit
    /\ phase = "bootstrapping"
    /\ conns = [p \in Peer |-> 0] /\ early = {}
    /\ topic = [r \in Protocol |-> DefaultPubSubTopic]

GivenTopic == IF PubSubTopic = Undefined THEN DefaultPubSubTopic ELSE PubSubTopic

(* create: the bootstrap list is there, or its retrieval failed, which is   *)
(* only logged; then the protocols are constructed, light push without      *)
(* options.                                                                 *)
Bootstrap ==
    /\ phase = "bootstrapping"
    /\ phase' = "starting"
    /\ topic' = [topic EXCEPT !["relay"] = GivenTopic, !["store"] = GivenTopic]
    /\ UNCHANGED <<keepAliveVars, registered, lightPushVars, conns, early>>

(* libp2p.start rejects, and create with it. *)
StartFails ==
    /\ phase = "starting"
    /\ phase' = "failed"
    /\ UNCHANGED <<keepAliveVars, registered, lightPushVars, conns, early, topic>>

(* libp2p.start resolves, and the constructor attaches the listeners. *)
Construct ==
    /\ phase = "starting"
    /\ phase' = "running"
    /\ early' = Connected
    /\ UNCHANGED <<keepAliveVars, registered, lightPushVars, conns, topic>>

(* Waku.stop: libp2p accepts no connection any more and closes all. *)
Stop ==
    /\ phase = "running"
    /\ phase' = "stopping"
    /\ UNCHANGED <<keepAliveVars, registered, lightPushVars, conns, early, topic>>

(* A connection opens, by dial, auto-dial or from the other side. *)
Connect(p) ==
    /\ phase \in {"starting", "running"}
    /\ conns[p] < MaxConns
    /\ conns' = [conns EXCEPT ![p] = @ + 1]
    /\ early' = early \ {p}
    /\ IF Listening THEN StartKeepAlive(p) ELSE UNCHANGED keepAliveVars
    /\ UNCHANGED <<registered, lightPushVars, phase, topic>>

(* A connection closes.  Calls on it fail, and if it was the last all do. *)
Disconnect(p) ==
    /\ conns[p] > 0
    /\ conns' = [conns EXCEPT ![p] = @ - 1]
    /\ early' = IF conns[p] = 1 THEN early \ {p} ELSE early
    /\ IF conns[p] = 1 /\ Listening THEN StopKeepAlive(p) ELSE UNCHANGED keepAliveVars
    /\ StreamsLost(p)
    /\ conns[p] = 1 =>
          {m \in Message : server[m] = p /\ push[m] \in {"opening", "sent"}} \subseteq broken'
    /\ UNCHANGED <<registered, push, server, verdict, phase, topic>>

(* The identify protocol ends; the peer store keeps what it said. *)
Identify(p) ==
    /\ p \in Connected \ registered
    /\ registered' = registered \cup {p}
    /\ UNCHANGED <<keepAliveVars, lightPushVars, phase, conns, early, topic>>

PushStep(m) ==
    /\ \/ Listening /\ \E target \in Peer \cup {AnyPeer} : Push(m, target, Connected)
       \/ OpenFails(m) \/ Opens(m) \/ PushFails(m) \/ Answered(m) \/ Handle(m)
    /\ UNCHANGED <<keepAliveVars, phase, conns, early, topic>>

Next ==
    \/ Bootstrap \/ StartFails \/ Construct \/ Stop
    \/ \E p \in Peer : Connect(p) \/ Disconnect(p) \/ Identify(p)
    \/ \E m \in Message : PushStep(m)

(* A libp2p that stops closes its connections. *)
Fairness == \A p \in Peer : WF_vars(phase = "stopping" /\ Disconnect(p))

Spec == Init /\ [][Next]_vars /\ Fairness

-----------------------------------------------------------------------------
(* What the node promises *)

(* The interval that fires for a peer is the one in the map, so that the    *)
(* next stop clears it: no sequence of connections to the same peer leaves  *)
(* an interval behind.                                                      *)
NoLeakedInterval ==
    \A k \in Timer, p \in Peer : live[k][p] = IF p \in timers[k] THEN 1 ELSE 0

(* The timers that the options ask for, as CreateOptions documents them:    *)
(* zero disables a timer, and no option stands for the default.             *)
Wanted == {k \in Timer : (IF Option(k) = Undefined THEN Default(k) ELSE Option(k)) # 0}

(* While the node runs, the peers kept alive by the timers asked for, and   *)
(* by no other, are those that are connected, except those that were when   *)
(* the listeners were attached.                                             *)
KeptAlive ==
    \A k \in Timer :
        timers[k] = IF k \in Wanted /\ Listening THEN Connected \ early ELSE {}

(* What the documentation of the options says: "Set to 0 to disable".       *)
ZeroDisables == \A k \in Timer, p \in Peer : Option(k) = 0 => live[k][p] = 0

(* A push that throws has shown its message to no peer, so that it may be   *)
(* tried again, and one that has a response tells what became of its own    *)
(* message, a refusal included, among all that are under way; null says     *)
(* neither.                                                                 *)
PushOutcome ==
    \A m \in Message :
        /\ push[m] = "thrown" => verdict[m] = "none"
        /\ push[m] \in Verdict => verdict[m] = push[m]

(* After stop no timer is left. *)
StopsTimers == phase = "stopping" ~> \A k \in Timer, p \in Peer : live[k][p] = 0

(* What the documentation of pubSubTopic says: one and only one topic is    *)
(* used, by relay, store and light push.                                    *)
OneTopic == Listening => \A r, s \in Protocol : topic[r] = topic[s]

=============================================================================

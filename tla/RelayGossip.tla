------------------------------- MODULE RelayGossip -------------------------------
(***************************************************************************)
(* Messages over the mesh and the fanout of RelayMesh                      *)
(* (src/lib/waku_relay/index.ts): _publish pushes a message and caches it, *)
(* and every heartbeat announces what the cache holds (IHAVE) to some of   *)
(* the peers that it was not pushed to, by _emitGossip.                    *)
(*                                                                         *)
(* The message cache is external: a window of HistoryLength heartbeats, of *)
(* which the last HistoryGossip are announced.                             *)
(***************************************************************************)
EXTENDS RelayMesh

CONSTANTS
    Message,
    Self,             \* this node, as the sender of a message
    GossipThreshold,  \* scoreThresholds.gossipThreshold
    Dlazy,            \* the least number of peers gossiped to
    GossipShare,      \* one over RelayGossipFactor
    MaxIHaveLength,   \* RelayMaxIHaveLength
    HistoryGossip,
    HistoryLength

ASSUME GossipAssumption ==
    /\ IsFiniteSet(Message) /\ Self \notin Peer
    /\ GossipThreshold \in Int
    /\ {Dlazy, HistoryGossip, HistoryLength} \subseteq Nat /\ HistoryGossip <= HistoryLength
    /\ GossipShare \in Nat \ {0} /\ MaxIHaveLength \in Nat \ {0}

VARIABLES
    age,    \* age[m]: heartbeats since m was cached, HistoryLength when it is gone
    pushed, \* <<p, m>>: m was sent to p, since p connected
    told    \* told[p][m]: how often m was announced to p, since p connected

gossipVars == <<age, pushed, told>>
allVars == <<vars, gossipVars>>

NotSeen == -1

GossipTypeOK ==
    /\ TypeOK
    /\ age \in [Message -> NotSeen .. HistoryLength]
    /\ pushed \subseteq connected \X Message
    /\ told \in [Peer -> [Message -> Nat]]

GossipInit ==
    /\ Init
    /\ age = [m \in Message |-> NotSeen]
    /\ pushed = {}
    /\ told = [p \in Peer |-> [m \in Message |-> 0]]

-----------------------------------------------------------------------------
(* _emitGossip *)

(* messageCache.getGossipIDs *)
GossipIDs == {m \in Message : age[m] \in 0 .. HistoryGossip - 1}

(* Mutant of PeersToGossip: nobody is excluded. *)
AnyPeerToGossip(exclude) == {p \in subscribed \ Direct : score[p] >= GossipThreshold}

PeersToGossip(exclude) ==
    {p \in subscribed \ (exclude \cup Direct) : score[p] >= GossipThreshold}

(* At least Dlazy of n peers, or their share. *)
Target(n) == Min({n, Max({Dlazy, n \div GossipShare})})

(* What one IHAVE lists: everything, or a random part of it. *)
Announced ==
    IF Cardinality(GossipIDs) > MaxIHaveLength THEN kSubset(MaxIHaveLength, GossipIDs) ELSE {GossipIDs}

(* The announcements one call of _emitGossip may send. *)
EmitGossip(exclude) ==
    LET peers == PeersToGossip(exclude) IN
    UNION {[chosen -> Announced] : chosen \in kSubset(Target(Cardinality(peers)), peers)}

Times(ihave, p, m) == IF p \in DOMAIN ihave /\ m \in ihave[p] THEN 1 ELSE 0

(* Mutant of Shift: the window stays. *)
NoShift == age

(* messageCache.shift *)
Shift ==
    [m \in Message |-> IF age[m] \in 0 .. HistoryLength - 1 THEN age[m] + 1 ELSE age[m]]

-----------------------------------------------------------------------------

(* _publish of a message of this node or of one that p sent: it is cached   *)
(* whether or not the topic has peers.                                      *)
PublishMessage(m, from) ==
    /\ age[m] = NotSeen
    /\ age' = [age EXCEPT ![m] = 0]
    /\ IF ~topicKnown
       THEN UNCHANGED <<vars, pushed>>
       ELSE /\ Publish
            /\ LET toSend == (Direct \cup (IF mesh # {} THEN mesh ELSE fanout')) \ {from}
               IN  pushed' = pushed \cup ((toSend \cap connected) \X {m})
    /\ UNCHANGED told

(* _heartbeat: the topic is gossiped for its mesh, then for its fanout.     *)
HeartbeatGossip ==
    /\ Heartbeat
    /\ \E forMesh \in IF joined THEN EmitGossip(mesh') ELSE {<<>>},
          forFanout \in IF fanning' THEN EmitGossip(fanout') ELSE {<<>>} :
          told' = [p \in Peer |-> [m \in Message |->
                      told[p][m] + Times(forMesh, p, m) + Times(forFanout, p, m)]]
    /\ age' = Shift
    /\ UNCHANGED pushed

(* A connection that ends takes with it what the peer was sent. *)
DisconnectGossip(p) ==
    /\ PeerDisconnects(p)
    /\ pushed' = {sent \in pushed : sent[1] # p}
    /\ told' = [told EXCEPT ![p] = [m \in Message |-> 0]]
    /\ UNCHANGED age

GossipNext ==
    \/ \E m \in Message, from \in Peer \cup {Self} : PublishMessage(m, from)
    \/ HeartbeatGossip
    \/ \E p \in Peer : DisconnectGossip(p)
    \/ /\ \/ Join \/ Rescore \/ Leave
          \/ \E p \in Peer : \/ PeerConnects(p) \/ PeerSubscribes(p) \/ PeerUnsubscribes(p)
                             \/ HandleGraft(p) \/ HandlePrune(p)
       /\ UNCHANGED gossipVars

GossipSpec == GossipInit /\ [][GossipNext]_allVars

-----------------------------------------------------------------------------
(* What gossip promises *)

(* A message is announced to a peer once per heartbeat while it is in the   *)
(* window, and twice while the joined topic has a fanout entry as well.     *)
IHaveBounded ==
    \A p \in Peer, m \in Message :
        told[p][m] <= 2 * (IF age[m] = NotSeen THEN 0 ELSE Min({age[m], HistoryGossip}))

(* relay_heartbeat.ts says that the peers of the mesh are excluded because  *)
(* they were pushed the messages.  They are, those that this heartbeat      *)
(* grafts too, unless a publication found the mesh empty in the last        *)
(* FanoutTTL heartbeats: its fanout entry is gossiped for as well, and      *)
(* excludes only its own peers.                                             *)
MeshToldOnlyForFanout ==
    [][HeartbeatGossip =>
          \A p \in mesh', m \in Message :
              told'[p][m] > told[p][m] =>
                  fanning' /\ lastpub' \in 0 .. FanoutTTL /\ p \notin fanout']_allVars

=============================================================================

------------------------------- MODULE RelayMesh -------------------------------
(***************************************************************************)
(* The peer management of WakuRelay for one pubsub topic: the mesh of a    *)
(* topic that was joined, the fanout of a topic that is published to, and  *)
(* the heartbeat that repairs both.                                        *)
(*                                                                         *)
(*   src/lib/waku_relay/index.ts            join, _publish                 *)
(*   src/lib/waku_relay/relay_heartbeat.ts  _heartbeat                     *)
(*   src/lib/waku_relay/get_relay_peers.ts  getRelayPeers                  *)
(*                                                                         *)
(* A handler of the node is one synchronous JavaScript call, hence one     *)
(* action.  What libp2p-gossipsub itself does to the same maps (a remote   *)
(* GRAFT or PRUNE, a connection or a subscription that comes and goes, the *)
(* peer scores) is the environment.  `heartbeat' treats the topics one     *)
(* after the other and shares nothing between them but the scores, so one  *)
(* topic stands for all.                                                   *)
(***************************************************************************)
EXTENDS Integers, FiniteSets, FiniteSetsExt

CONSTANTS
    Peer,              \* remote peers that speak one of RelayCodecs
    Direct,            \* gossipsub.direct: peers with a direct peering agreement
    Outbound,          \* gossipsub.outbound: peers this node dialed
    Scores,            \* the score assignments that occur, functions on Peer
    PublishThreshold,  \* scoreThresholds.publishThreshold, not above 0
    OppThreshold,      \* scoreThresholds.opportunisticGraftThreshold
    D, Dlo, Dhi,       \* target, low and high watermark of the mesh
    Dscore, Dout,      \* mesh slots for the best scores, and for outbound peers
    OppTicks,          \* RelayOpportunisticGraftTicks
    OppPeers,          \* RelayOpportunisticGraftPeers
    FanoutTTL          \* RelayFanoutTTL, in heartbeats

ASSUME PeerAssumption == IsFiniteSet(Peer) /\ Direct \subseteq Peer /\ Outbound \subseteq Peer
ASSUME ScoresAssumption ==
    Scores # {} /\ Scores \subseteq [Peer -> Int]
ASSUME ThresholdAssumption ==
    PublishThreshold \in Int /\ PublishThreshold <= 0 /\ OppThreshold \in Int
ASSUME DegreeAssumption ==
    /\ {D, Dlo, Dhi, Dscore, Dout, OppPeers} \subseteq Nat
    /\ Dlo <= D /\ D <= Dhi /\ Dscore <= D
ASSUME TickAssumption == OppTicks \in Nat \ {0} /\ FanoutTTL \in Nat

VARIABLES
    connected,   \* router.peers: peers with an open stream
    subscribed,  \* router.topics.get(topic), as far as it is known
    topicKnown,  \* router.topics has an entry for the topic
    score,       \* what score.score(id) answers now
    joined,      \* mesh has an entry for the topic
    mesh,        \* that entry
    backoff,     \* backoff.get(topic): peers not to be grafted for a while
    fanning,     \* fanout has an entry for the topic
    fanout,      \* that entry
    lastpub,     \* heartbeats since the topic's lastpub entry, or NoEntry
    ticks,       \* heartbeatTicks, modulo OppTicks
    linked       \* peers that, by the GRAFTs and PRUNEs exchanged, have us in their mesh

env == <<connected, subscribed, topicKnown, score>>
meshVars == <<joined, mesh, backoff>>
fanVars == <<fanning, fanout, lastpub>>
vars == <<env, meshVars, fanVars, ticks, linked>>

NoEntry == -1

TypeOK ==
    /\ connected \subseteq Peer
    /\ subscribed \subseteq connected
    /\ topicKnown \in BOOLEAN
    /\ score \in Scores
    /\ joined \in BOOLEAN
    /\ mesh \subseteq connected
    /\ backoff \subseteq Peer
    /\ fanning \in BOOLEAN
    /\ fanout \subseteq connected
    /\ lastpub \in {NoEntry} \cup 0 .. FanoutTTL
    /\ ticks \in 0 .. OppTicks - 1
    /\ linked \subseteq connected

Init ==
    /\ connected = {} /\ subscribed = {} /\ topicKnown = FALSE
    /\ score \in Scores
    /\ joined = FALSE /\ mesh = {} /\ backoff = {}
    /\ fanning = FALSE /\ fanout = {} /\ lastpub = NoEntry
    /\ ticks = 0
    /\ linked = {}

-----------------------------------------------------------------------------
(* Selection of peers *)

(* getRelayPeers: at most count of the eligible peers, chosen at random;   *)
(* a count of zero or less does not limit the answer.                      *)
GetRelayPeers(count, eligible) ==
    IF count > 0 /\ Cardinality(eligible) > count
    THEN kSubset(count, eligible)
    ELSE {eligible}

(* Mutants of Graftable: the filter without one of its tests. *)
GraftableDuringBackoff(m, b) ==
    {p \in subscribed : p \notin m /\ p \notin Direct /\ score[p] >= 0}
GraftableDirect(m, b) == {p \in subscribed : p \notin m /\ p \notin b /\ score[p] >= 0}
GraftablePositive(m, b) ==
    {p \in subscribed : p \notin m /\ p \notin Direct /\ p \notin b /\ score[p] > 0}

(* The filter of the two mesh-filling steps of the heartbeat. *)
Graftable(m, b) ==
    {p \in subscribed : p \notin m /\ p \notin Direct /\ p \notin b /\ score[p] >= 0}

(* Mutant of Publishable: the threshold is not looked at. *)
AnySubscribed == subscribed

Publishable == {p \in subscribed : score[p] >= PublishThreshold}

Negative(m) == {p \in m : score[p] < 0}

(* The first Dscore elements of peersArray: a peer left out never scores   *)
(* better than one that is in.                                             *)
BestScored(m) ==
    {top \in kSubset(Dscore, m) : \A p \in top, q \in m \ top : score[p] >= score[q]}

(* The selection after the rotations.  Outbound peers move from outside    *)
(* the first D to the front until there are D of them (ineed = D -         *)
(* outbound); each pushes out the last of the first D, which is a random   *)
(* one of those that are neither outbound nor best scored, and when these  *)
(* are used up the worst of the best scored.                               *)
Rebalanced(m, top, sel) ==
    LET outside == (m \ sel) \cap Outbound
        have    == Cardinality(sel \cap Outbound)
        moved   == IF have < Dout THEN Min({D - have, Cardinality(outside)}) ELSE 0
        inner   == sel \ Outbound
        Last(g) == \A p \in g, q \in inner \ g :
                       p \in top => q \in top /\ score[p] <= score[q]
    IN  {(sel \ gone) \cup came :
            gone \in {g \in kSubset(moved, inner) : Last(g)},
            came \in kSubset(moved, outside)}

(* What the heartbeat keeps of a mesh with more than Dhi peers. *)
KeptOf(m) ==
    UNION {UNION {Rebalanced(m, top, top \cup rest) :
                     rest \in kSubset(D - Dscore, m \ top)} : top \in BestScored(m)}

(* The middle of the mesh's scores as the code reads it: peers.size / 2 is *)
(* no index when the size is odd, and the score of an unknown peer is 0.   *)
Median(m) ==
    IF Cardinality(m) % 2 = 1
    THEN 0
    ELSE CHOOSE v \in {score[p] : p \in m} :
            /\ Cardinality({p \in m : score[p] < v}) <= Cardinality(m) \div 2
            /\ Cardinality({p \in m : score[p] <= v}) > Cardinality(m) \div 2

OppGraftable(m, b) ==
    {p \in subscribed : p \in m /\ p \notin Direct /\ p \notin b /\ score[p] > Median(m)}

-----------------------------------------------------------------------------
(* Handlers of the node *)

(* Mutant of SendControl: the PRUNEs are not sent. *)
SendGraftsOnly(grafts, prunes) == linked' = linked \cup (grafts \cap connected)

(* One RPC carries the GRAFTs and the PRUNEs; its receiver handles the     *)
(* PRUNEs last.                                                            *)
SendControl(grafts, prunes) ==
    linked' = (linked \cup (grafts \cap connected)) \ prunes

(* subscribe -> join.  Only started is checked: joining a topic again      *)
(* rebuilds its mesh.                                                      *)
Join ==
    /\ joined' = TRUE
    /\ \E more \in
         IF ~fanning THEN GetRelayPeers(D, {p \in subscribed \ Direct : score[p] >= 0})
         ELSE LET kept == fanout \ Negative(fanout) IN
              IF Cardinality(kept) < D
              THEN GetRelayPeers(D - Cardinality(kept),
                      {p \in subscribed \ (kept \cup Direct) : score[p] >= 0})
              ELSE {{}} :
            mesh' = more \cup (IF fanning THEN fanout \ Negative(fanout) ELSE {})
    /\ IF fanning
       THEN fanning' = FALSE /\ fanout' = {} /\ lastpub' = NoEntry
       ELSE UNCHANGED fanVars
    /\ SendControl(mesh', {})
    /\ UNCHANGED <<env, backoff, ticks>>

(* Mutant of Publish: a new fanout entry is not stamped. *)
PublishUnstamped ==
    /\ topicKnown /\ mesh = {} /\ ~fanning
    /\ fanout' \in GetRelayPeers(D, Publishable)
    /\ fanning' = (fanout' # {})
    /\ UNCHANGED <<env, meshVars, ticks, linked, lastpub>>

(* _publish.  The message goes to the direct peers and to the mesh, or, if *)
(* that is empty, to the fanout: the old entry, even an empty one, or a    *)
(* new entry.                                                              *)
Publish ==
    /\ topicKnown
    /\ IF mesh # {}
       THEN UNCHANGED fanVars
       ELSE /\ lastpub' = 0
            /\ IF fanning
               THEN UNCHANGED <<fanning, fanout>>
               ELSE /\ fanout' \in GetRelayPeers(D, Publishable)
                    /\ fanning' = (fanout' # {})
    /\ UNCHANGED <<env, meshVars, ticks, linked>>

(* Mutant of AddBackoff: prunePeer without the backoff record. *)
NoBackoff(b, pruned) == b

AddBackoff(b, pruned) == b \cup pruned

(* One round of mesh maintenance of _heartbeat, with the expired backoffs  *)
(* already cleared.                                                        *)
MaintainMesh(b0) ==
    LET low == mesh \ Negative(mesh)
        b1  == AddBackoff(b0, Negative(mesh))
    IN
    \E g1 \in IF Cardinality(low) < Dlo
              THEN GetRelayPeers(D - Cardinality(low), Graftable(low, b1))
              ELSE {{}} :
    \E kept \in IF Cardinality(low \cup g1) > Dhi THEN KeptOf(low \cup g1) ELSE {low \cup g1} :
    LET b2 == AddBackoff(b1, (low \cup g1) \ kept)
        short == Dout - Cardinality(kept \cap Outbound)
    IN
    \E g2 \in IF Cardinality(kept) >= Dlo /\ short > 0
              THEN GetRelayPeers(short, Graftable(kept, b2))
              ELSE {{}} :
    LET full == kept \cup g2 IN
    \E g3 \in IF ticks' = 0 /\ Cardinality(full) > 1 /\ Median(full) < OppThreshold
              THEN GetRelayPeers(OppPeers, OppGraftable(full, b2))
              ELSE {{}} :
        /\ mesh' = full
        /\ backoff' = b2
        /\ SendControl(g1 \cup g2 \cup g3, (mesh \cup g1) \ kept)

(* Mutant of Expired: one heartbeat late. *)
ExpiredLate == lastpub > FanoutTTL

(* lastpub + RelayFanoutTTL < now *)
Expired == lastpub = FanoutTTL

(* Mutant of Aged: the heartbeat counts as a publication. *)
Refreshed == IF lastpub = NoEntry THEN NoEntry ELSE 0

Aged == IF lastpub = NoEntry \/ Expired THEN NoEntry ELSE lastpub + 1

(* Expiry and maintenance of the fanout by _heartbeat. *)
MaintainFanout ==
    LET kept == fanout \cap Publishable IN
    /\ lastpub' = Aged
    /\ fanning' = (fanning /\ ~Expired)
    /\ IF ~fanning' THEN fanout' = {}
       ELSE \E more \in IF Cardinality(kept) < D
                        THEN GetRelayPeers(D - Cardinality(kept), (Publishable \ kept) \ Direct)
                        ELSE {{}} :
               fanout' = kept \cup more

(* _heartbeat *)
Heartbeat ==
    /\ ticks' = (ticks + 1) % OppTicks
    /\ \E cleared \in SUBSET backoff :
          IF joined
          THEN MaintainMesh(backoff \ cleared)
          ELSE /\ backoff' = backoff \ cleared
               /\ UNCHANGED <<mesh, linked>>
    /\ MaintainFanout
    /\ UNCHANGED <<env, joined>>

-----------------------------------------------------------------------------
(* The environment: libp2p and libp2p-gossipsub *)

PeerConnects(p) ==
    /\ p \notin connected
    /\ connected' = connected \cup {p}
    /\ UNCHANGED <<subscribed, topicKnown, score, meshVars, fanVars, ticks, linked>>

PeerDisconnects(p) ==
    /\ p \in connected
    /\ connected' = connected \ {p}
    /\ subscribed' = subscribed \ {p}
    /\ mesh' = mesh \ {p}
    /\ fanout' = fanout \ {p}
    /\ linked' = linked \ {p}
    /\ UNCHANGED <<topicKnown, score, joined, backoff, fanning, lastpub, ticks>>

(* An (un)subscription announced by p changes topics and nothing else. *)
PeerSubscribes(p) ==
    /\ p \in connected \ subscribed
    /\ subscribed' = subscribed \cup {p}
    /\ topicKnown' = TRUE
    /\ UNCHANGED <<connected, score, meshVars, fanVars, ticks, linked>>

PeerUnsubscribes(p) ==
    /\ p \in subscribed
    /\ subscribed' = subscribed \ {p}
    /\ UNCHANGED <<connected, topicKnown, score, meshVars, fanVars, ticks, linked>>

Rescore ==
    /\ score' \in Scores \ {score}
    /\ UNCHANGED <<connected, subscribed, topicKnown, meshVars, fanVars, ticks, linked>>

(* unsubscribe -> leave: every mesh peer gets a PRUNE. *)
Leave ==
    /\ joined
    /\ joined' = FALSE
    /\ mesh' = {}
    /\ SendControl({}, mesh)
    /\ UNCHANGED <<env, backoff, fanVars, ticks>>

(* A GRAFT from p, accepted or answered with a PRUNE. *)
HandleGraft(p) ==
    /\ p \in connected \ mesh
    /\ joined
    /\ IF p \in Direct \cup backoff \/ score[p] < 0
          \/ (Cardinality(mesh) >= Dhi /\ p \notin Outbound)
       THEN /\ backoff' = IF p \in Direct THEN backoff ELSE backoff \cup {p}
            /\ SendControl({}, {p})
            /\ UNCHANGED mesh
       ELSE /\ mesh' = mesh \cup {p}
            /\ linked' = linked \cup {p}
            /\ UNCHANGED backoff
    /\ UNCHANGED <<env, joined, fanVars, ticks>>

(* A PRUNE from p: it dropped us from its mesh and asks for a backoff. *)
HandlePrune(p) ==
    /\ p \in linked
    /\ joined
    /\ mesh' = mesh \ {p}
    /\ backoff' = backoff \cup {p}
    /\ linked' = linked \ {p}
    /\ UNCHANGED <<env, joined, fanVars, ticks>>

-----------------------------------------------------------------------------

Next ==
    \/ Join \/ Publish \/ Heartbeat \/ Rescore \/ Leave
    \/ \E p \in Peer :
          \/ PeerConnects(p) \/ PeerDisconnects(p)
          \/ PeerSubscribes(p) \/ PeerUnsubscribes(p)
          \/ HandleGraft(p) \/ HandlePrune(p)

(* The heartbeat runs from a setInterval of the started router. *)
Spec == Init /\ [][Next]_vars /\ WF_vars(Heartbeat)

-----------------------------------------------------------------------------
(* What the component promises *)

(* No peer that this node pushes to as a mesh peer was last told, or told   *)
(* us, that the link is gone: in particular the heartbeat never re-grafts   *)
(* in one round a peer that it prunes in that round (prunePeer records the  *)
(* backoff before the next selection reads it).                             *)
MeshIsLinked == mesh \subseteq linked

(* A half-open link, a peer that still has us in its mesh while we dropped  *)
(* it without a PRUNE, comes only from subscribing to a topic that is       *)
(* already joined: join builds the mesh anew and forgets the old one.       *)
HalfOpenOnlyByResubscribe ==
    [][linked' \ mesh' \subseteq linked \ mesh \/ (joined /\ Join)]_vars

(* A peer under backoff enters the mesh only through join, which does not   *)
(* look at the backoffs; heartbeat and remote GRAFTs respect them.          *)
BackoffRespected ==
    [][mesh' \cap backoff' \subseteq mesh \cap backoff \/ Join]_vars

(* A direct peer enters the mesh only when join promotes a fanout that      *)
(* _publish filled without leaving the direct peers out.                    *)
DirectOnlyByPromotion ==
    [][mesh' \cap Direct \subseteq mesh \/ (Join /\ mesh' \cap Direct \subseteq fanout)]_vars

(* One heartbeat repairs the mesh: it leaves no peer of negative score,     *)
(* leaves the mesh short only when nobody can be grafted, and exceeds Dhi   *)
(* by no more than the outbound quota.                                      *)
HeartbeatRepairs ==
    [][Heartbeat /\ joined =>
          /\ \A p \in mesh' : score[p] >= 0
          /\ Cardinality(mesh') < Dlo =>
                \A p \in subscribed \ (mesh' \cup Direct \cup backoff') : score[p] < 0
          /\ Cardinality(mesh') <= Dhi + Dout]_vars

(* The heartbeat tops the fanout up with publishable peers, so that an      *)
(* entry emptied by disconnections, to which _publish sends nothing, lasts  *)
(* one heartbeat only.                                                      *)
FanoutRefilled ==
    [][Heartbeat /\ fanning' =>
          /\ \A p \in fanout' : p \in subscribed /\ score[p] >= PublishThreshold
          /\ Cardinality(fanout') < D =>
                \A p \in subscribed \ (fanout' \cup Direct) : score[p] < PublishThreshold]_vars

(* A fanout entry always has the lastpub entry by which it expires: without *)
(* it the entry would be maintained for ever.                               *)
FanoutHasClock == fanning => lastpub # NoEntry

(* When nothing is published any more the fanout goes away. *)
FanoutExpires == []<><<Publish>>_vars \/ <>[]~fanning

(* What relay_heartbeat.ts says of opportunistic grafting, "filter out      *)
(* current mesh peers": when its turn has come and the mesh underperforms,  *)
(* the mesh stays as it is only if no peer outside scores above the median. *)
OpportunisticGraft ==
    [][Heartbeat /\ joined /\ ticks' = 0 /\ mesh' = mesh /\ Cardinality(mesh) > 1
          /\ Median(mesh) < OppThreshold =>
          \A p \in subscribed \ (mesh \cup Direct \cup backoff') : score[p] <= Median(mesh)]_vars

=============================================================================

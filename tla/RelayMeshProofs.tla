---------------------------- MODULE RelayMeshProofs ----------------------------
(***************************************************************************)
(* Theorems about RelayMesh, for every set of peers, all score assignments *)
(* and every choice of the watermarks, and about RelayGossip on top of it, *)
(* for every set of messages and every length of the history.              *)
(***************************************************************************)
EXTENDS RelayGossip, FiniteSetTheorems, TLAPS

(* getRelayPeers answers with peers that passed the filter, whatever the    *)
(* count.                                                                   *)
LEMMA GetRelayPeersSubset ==
    ASSUME NEW count, NEW eligible, NEW g \in GetRelayPeers(count, eligible)
    PROVE  g \subseteq eligible
BY DEF GetRelayPeers, kSubset

(* The over-full branch of the heartbeat keeps some of the mesh and adds    *)
(* nobody.                                                                  *)
LEMMA KeptSubset ==
    ASSUME NEW m, NEW kept \in KeptOf(m)
    PROVE  kept \subseteq m
<1> DEFINE Sel(top) == {Rebalanced(m, top, top \cup rest) : rest \in kSubset(D - Dscore, m \ top)}
<1>1. PICK top \in BestScored(m) : kept \in UNION Sel(top)
  <2>1. kept \in UNION {UNION Sel(top) : top \in BestScored(m)}
    BY DEF KeptOf
  <2> HIDE DEF Sel
  <2> QED BY <2>1
<1>2. PICK rest \in kSubset(D - Dscore, m \ top) : kept \in Rebalanced(m, top, top \cup rest)
  <2> DEFINE R(r) == Rebalanced(m, top, top \cup r)
  <2>1. kept \in UNION {R(r) : r \in kSubset(D - Dscore, m \ top)}
    BY <1>1
  <2> HIDE DEF R
  <2>2. PICK r \in kSubset(D - Dscore, m \ top) : kept \in R(r)
    BY <2>1
  <2> QED BY <2>2 DEF R
<1>3. top \subseteq m /\ rest \subseteq m
  BY DEF BestScored, kSubset
<1>4. kept \subseteq (top \cup rest) \cup m
  <2> DEFINE sel == top \cup rest
  <2>1. \A gone, came : came \in SUBSET ((m \ sel) \cap Outbound) =>
            (sel \ gone) \cup came \subseteq sel \cup m
    OBVIOUS
  <2>2. \E gone, came : came \in SUBSET ((m \ sel) \cap Outbound) /\ kept = (sel \ gone) \cup came
    BY <1>2 DEF Rebalanced, kSubset
  <2> QED BY <2>1, <2>2
<1> QED BY <1>3, <1>4

(* With a positive count getRelayPeers answers with at most that many       *)
(* peers, and leaves nobody out unless it has found that many.              *)
LEMMA GetRelayPeersSize ==
    ASSUME NEW count \in Int, count > 0, NEW eligible, IsFiniteSet(eligible),
           NEW g \in GetRelayPeers(count, eligible)
    PROVE  /\ IsFiniteSet(g)
           /\ Cardinality(g) \in Nat /\ Cardinality(g) <= count
           /\ g = eligible \/ Cardinality(g) = count
<1>1. g \in SUBSET eligible
  BY GetRelayPeersSubset
<1>2. IsFiniteSet(g)
  BY <1>1, FS_Subset
<1>3. Cardinality(g) \in Nat /\ Cardinality(eligible) \in Nat
  BY <1>2, FS_CardinalityType
<1>4. CASE Cardinality(eligible) > count
  BY <1>2, <1>3, <1>4 DEF GetRelayPeers, kSubset
<1>5. CASE ~(Cardinality(eligible) > count)
  <2>1. g = eligible
    BY <1>5 DEF GetRelayPeers
  <2> QED BY <1>2, <1>3, <1>5, <2>1
<1> QED BY <1>4, <1>5

(* Two sets without a common member. *)
LEMMA DisjointUnion ==
    ASSUME NEW S, NEW T, IsFiniteSet(S), IsFiniteSet(T), S \cap T = {}
    PROVE  /\ IsFiniteSet(S \cup T)
           /\ Cardinality(S \cup T) = Cardinality(S) + Cardinality(T)
<1>1. Cardinality(S \cap T) = 0
  BY FS_EmptySet
<1>2. Cardinality(S) \in Nat /\ Cardinality(T) \in Nat
  BY FS_CardinalityType
<1>3. /\ IsFiniteSet(S \cup T)
      /\ Cardinality(S \cup T) = Cardinality(S) + Cardinality(T) - Cardinality(S \cap T)
  BY FS_Union
<1> QED BY <1>1, <1>2, <1>3

(* The over-full branch keeps D peers: the rotations move outbound peers in *)
(* and as many others out.                                                  *)
LEMMA KeptSize ==
    ASSUME NEW m, IsFiniteSet(m), NEW kept \in KeptOf(m)
    PROVE  Cardinality(kept) = D
<1> DEFINE Sel(top) == {Rebalanced(m, top, top \cup rest) : rest \in kSubset(D - Dscore, m \ top)}
<1>1. PICK top \in BestScored(m) : kept \in UNION Sel(top)
  <2>1. kept \in UNION {UNION Sel(top) : top \in BestScored(m)}
    BY DEF KeptOf
  <2> HIDE DEF Sel
  <2> QED BY <2>1
<1>2. PICK rest \in kSubset(D - Dscore, m \ top) : kept \in Rebalanced(m, top, top \cup rest)
  <2> DEFINE R(r) == Rebalanced(m, top, top \cup r)
  <2>1. kept \in UNION {R(r) : r \in kSubset(D - Dscore, m \ top)}
    BY <1>1
  <2> HIDE DEF R
  <2>2. PICK r \in kSubset(D - Dscore, m \ top) : kept \in R(r)
    BY <2>1
  <2> QED BY <2>2 DEF R
<1> DEFINE sel == top \cup rest
<1>3. /\ top \in SUBSET m /\ Cardinality(top) = Dscore
      /\ rest \in SUBSET (m \ top) /\ Cardinality(rest) = D - Dscore
  BY DEF BestScored, kSubset
<1>4. IsFiniteSet(sel) /\ Cardinality(sel) = D /\ sel \subseteq m
  <2>1. IsFiniteSet(top) /\ IsFiniteSet(m \ top)
    BY <1>3, FS_Subset, FS_Difference
  <2>2. IsFiniteSet(rest)
    BY <1>3, <2>1, FS_Subset
  <2>3. top \cap rest = {}
    BY <1>3
  <2>4. IsFiniteSet(sel) /\ Cardinality(sel) = Dscore + (D - Dscore)
    BY <1>3, <2>1, <2>2, <2>3, DisjointUnion
  <2> QED BY <1>3, <2>4, DegreeAssumption
<1>5. PICK moved, gone, came :
         /\ gone \in SUBSET sel /\ Cardinality(gone) = moved
         /\ came \in SUBSET (m \ sel) /\ Cardinality(came) = moved
         /\ kept = (sel \ gone) \cup came
  BY <1>2 DEF Rebalanced, kSubset
<1>6. IsFiniteSet(gone) /\ IsFiniteSet(came) /\ moved \in Nat
  <2>1. IsFiniteSet(gone) /\ IsFiniteSet(m \ sel)
    BY <1>4, <1>5, FS_Subset, FS_Difference
  <2>2. IsFiniteSet(came)
    BY <1>5, <2>1, FS_Subset
  <2> QED BY <1>5, <2>1, <2>2, FS_CardinalityType
<1>7. IsFiniteSet(sel \ gone) /\ Cardinality(sel \ gone) = D - moved
  <2>1. sel \cap gone = gone
    BY <1>5
  <2> HIDE DEF sel
  <2>2. IsFiniteSet(sel \ gone) /\ Cardinality(sel \ gone) = Cardinality(sel) - Cardinality(sel \cap gone)
    BY <1>4, FS_Difference
  <2> QED BY <1>4, <1>5, <2>1, <2>2
<1>8. (sel \ gone) \cap came = {}
  BY <1>5
<1>9. Cardinality(kept) = (D - moved) + moved
  BY <1>5, <1>6, <1>7, <1>8, DisjointUnion
<1> QED BY <1>6, <1>9, DegreeAssumption

(* The choices of a round of mesh maintenance: g1 and g2 are grafted, kept  *)
(* is what is left of the mesh and g1, and every peer that goes is backed   *)
(* off.                                                                     *)
LEMMA MaintainMeshChoices ==
    ASSUME NEW b0, MaintainMesh(b0)
    PROVE  \E b1, b2, low, g1, kept, g2, g3 :
              /\ low = mesh \ Negative(mesh)
              /\ b1 = b0 \cup Negative(mesh)
              /\ g1 \in IF Cardinality(low) < Dlo
                        THEN GetRelayPeers(D - Cardinality(low), Graftable(low, b1))
                        ELSE {{}}
              /\ kept \in IF Cardinality(low \cup g1) > Dhi THEN KeptOf(low \cup g1) ELSE {low \cup g1}
              /\ b2 = b1 \cup ((low \cup g1) \ kept)
              /\ g2 \in IF Cardinality(kept) >= Dlo /\ Dout - Cardinality(kept \cap Outbound) > 0
                        THEN GetRelayPeers(Dout - Cardinality(kept \cap Outbound), Graftable(kept, b2))
                        ELSE {{}}
              /\ g3 \in IF ticks' = 0 /\ Cardinality(kept \cup g2) > 1 /\ Median(kept \cup g2) < OppThreshold
                        THEN GetRelayPeers(OppPeers, OppGraftable(kept \cup g2, b2))
                        ELSE {{}}
              /\ mesh' = kept \cup g2
              /\ backoff' = b2
              /\ SendControl(g1 \cup g2 \cup g3, (mesh \cup g1) \ kept)
<1> DEFINE low == mesh \ Negative(mesh)
           b1  == b0 \cup Negative(mesh)
           G1  == IF Cardinality(low) < Dlo
                  THEN GetRelayPeers(D - Cardinality(low), Graftable(low, b1))
                  ELSE {{}}
           K(g1) == IF Cardinality(low \cup g1) > Dhi THEN KeptOf(low \cup g1) ELSE {low \cup g1}
           B2(g1, kept) == b1 \cup ((low \cup g1) \ kept)
           Short(kept) == Dout - Cardinality(kept \cap Outbound)
           G2(g1, kept) == IF Cardinality(kept) >= Dlo /\ Short(kept) > 0
                  THEN GetRelayPeers(Short(kept), Graftable(kept, B2(g1, kept)))
                  ELSE {{}}
           G3(g1, full, kept) ==
                  IF ticks' = 0 /\ Cardinality(full) > 1 /\ Median(full) < OppThreshold
                  THEN GetRelayPeers(OppPeers, OppGraftable(full, B2(g1, kept)))
                  ELSE {{}}
<1>1. \E g1 \in G1 : \E kept \in K(g1) : \E g2 \in G2(g1, kept) :
         \E g3 \in G3(g1, kept \cup g2, kept) :
            /\ mesh' = kept \cup g2
            /\ backoff' = B2(g1, kept)
            /\ SendControl(g1 \cup g2 \cup g3, (mesh \cup g1) \ kept)
  BY DEF MaintainMesh, AddBackoff
<1> HIDE DEF G1, K, G2, G3
<1>2. PICK g1 \in G1 : \E kept \in K(g1) : \E g2 \in G2(g1, kept) :
         \E g3 \in G3(g1, kept \cup g2, kept) :
            /\ mesh' = kept \cup g2
            /\ backoff' = B2(g1, kept)
            /\ SendControl(g1 \cup g2 \cup g3, (mesh \cup g1) \ kept)
  BY <1>1
<1>3. PICK kept \in K(g1) : \E g2 \in G2(g1, kept) :
         \E g3 \in G3(g1, kept \cup g2, kept) :
            /\ mesh' = kept \cup g2
            /\ backoff' = B2(g1, kept)
            /\ SendControl(g1 \cup g2 \cup g3, (mesh \cup g1) \ kept)
  BY <1>2
<1>4. PICK g2 \in G2(g1, kept) :
         \E g3 \in G3(g1, kept \cup g2, kept) :
            /\ mesh' = kept \cup g2
            /\ backoff' = B2(g1, kept)
            /\ SendControl(g1 \cup g2 \cup g3, (mesh \cup g1) \ kept)
  BY <1>3
<1>5. PICK g3 \in G3(g1, kept \cup g2, kept) :
            /\ mesh' = kept \cup g2
            /\ backoff' = B2(g1, kept)
            /\ SendControl(g1 \cup g2 \cup g3, (mesh \cup g1) \ kept)
  BY <1>4
<1> WITNESS b1, B2(g1, kept), low, g1, kept, g2, g3
<1>6. g1 \in IF Cardinality(low) < Dlo
             THEN GetRelayPeers(D - Cardinality(low), Graftable(low, b1))
             ELSE {{}}
  BY <1>2 DEF G1
<1>7. kept \in IF Cardinality(low \cup g1) > Dhi THEN KeptOf(low \cup g1) ELSE {low \cup g1}
  BY <1>3 DEF K
<1>8. g2 \in IF Cardinality(kept) >= Dlo /\ Dout - Cardinality(kept \cap Outbound) > 0
             THEN GetRelayPeers(Dout - Cardinality(kept \cap Outbound), Graftable(kept, B2(g1, kept)))
             ELSE {{}}
  BY <1>4 DEF G2
<1>9. g3 \in IF ticks' = 0 /\ Cardinality(kept \cup g2) > 1 /\ Median(kept \cup g2) < OppThreshold
             THEN GetRelayPeers(OppPeers, OppGraftable(kept \cup g2, B2(g1, kept)))
             ELSE {{}}
  BY <1>5 DEF G3
<1> QED BY <1>5, <1>6, <1>7, <1>8, <1>9

(* What follows for who is grafted and who is left.                         *)
LEMMA MaintainMeshShape ==
    ASSUME NEW b0, MaintainMesh(b0)
    PROVE  \E b1, b2, g1, kept, g2, g3 :
              /\ b1 = b0 \cup Negative(mesh)
              /\ g1 \subseteq Graftable(mesh \ Negative(mesh), b1)
              /\ kept \subseteq (mesh \ Negative(mesh)) \cup g1
              /\ b2 = b1 \cup (((mesh \ Negative(mesh)) \cup g1) \ kept)
              /\ g2 \subseteq Graftable(kept, b2)
              /\ g3 \subseteq OppGraftable(kept \cup g2, b2)
              /\ mesh' = kept \cup g2
              /\ backoff' = b2
              /\ SendControl(g1 \cup g2 \cup g3, (mesh \cup g1) \ kept)
<1>1. PICK b1, b2, low, g1, kept, g2, g3 :
              /\ low = mesh \ Negative(mesh)
              /\ b1 = b0 \cup Negative(mesh)
              /\ g1 \in IF Cardinality(low) < Dlo
                        THEN GetRelayPeers(D - Cardinality(low), Graftable(low, b1))
                        ELSE {{}}
              /\ kept \in IF Cardinality(low \cup g1) > Dhi THEN KeptOf(low \cup g1) ELSE {low \cup g1}
              /\ b2 = b1 \cup ((low \cup g1) \ kept)
              /\ g2 \in IF Cardinality(kept) >= Dlo /\ Dout - Cardinality(kept \cap Outbound) > 0
                        THEN GetRelayPeers(Dout - Cardinality(kept \cap Outbound), Graftable(kept, b2))
                        ELSE {{}}
              /\ g3 \in IF ticks' = 0 /\ Cardinality(kept \cup g2) > 1 /\ Median(kept \cup g2) < OppThreshold
                        THEN GetRelayPeers(OppPeers, OppGraftable(kept \cup g2, b2))
                        ELSE {{}}
              /\ mesh' = kept \cup g2
              /\ backoff' = b2
              /\ SendControl(g1 \cup g2 \cup g3, (mesh \cup g1) \ kept)
  BY MaintainMeshChoices
<1>2. g1 \subseteq Graftable(low, b1)
  BY <1>1, GetRelayPeersSubset
<1>3. kept \subseteq low \cup g1
  BY <1>1, KeptSubset
<1>4. g2 \subseteq Graftable(kept, b2)
  BY <1>1, GetRelayPeersSubset
<1>5. g3 \subseteq OppGraftable(kept \cup g2, b2)
  BY <1>1, GetRelayPeersSubset
<1> QED BY <1>1, <1>2, <1>3, <1>4, <1>5

-----------------------------------------------------------------------------

(* join fills the mesh from the promoted fanout and from subscribed peers.  *)
LEMMA JoinShape ==
    ASSUME Join
    PROVE  /\ mesh' \subseteq fanout \cup subscribed
           /\ mesh' \cap Direct \subseteq fanout
<1> DEFINE kept == fanout \ Negative(fanout)
           More == IF ~fanning THEN GetRelayPeers(D, {p \in subscribed \ Direct : score[p] >= 0})
                   ELSE IF Cardinality(kept) < D
                        THEN GetRelayPeers(D - Cardinality(kept),
                                {p \in subscribed \ (kept \cup Direct) : score[p] >= 0})
                        ELSE {{}}
<1>1. PICK more \in More : mesh' = more \cup (IF fanning THEN kept ELSE {})
  BY DEF Join
<1>2. more \subseteq subscribed \ Direct
  <2>1. CASE ~fanning
    BY <2>1, GetRelayPeersSubset
  <2>2. CASE fanning /\ Cardinality(kept) < D
    BY <2>2, GetRelayPeersSubset
  <2>3. CASE fanning /\ ~(Cardinality(kept) < D)
    BY <2>3
  <2> QED BY <2>1, <2>2, <2>3
<1> QED BY <1>1, <1>2

(* The heartbeat, whether the topic is joined or not, in terms of the peers *)
(* it removes from the mesh (gone) and those it grafts.                     *)
LEMMA HeartbeatShape ==
    ASSUME TypeOK, Heartbeat
    PROVE  \E b0, gone, grafted, again :
              /\ b0 \subseteq backoff
              /\ mesh' = (mesh \ gone) \cup grafted
              /\ backoff' = b0 \cup gone
              /\ linked' = (linked \cup ((grafted \cup again) \cap connected)) \ gone
              /\ gone \subseteq mesh \cup subscribed
              /\ again \subseteq gone \cup mesh'
              /\ grafted \subseteq subscribed \ (Direct \cup backoff')
<1>1. PICK b0 \in SUBSET backoff :
         IF joined THEN MaintainMesh(b0)
         ELSE backoff' = b0 /\ UNCHANGED <<mesh, linked>>
  <2>1. PICK cleared \in SUBSET backoff :
           IF joined THEN MaintainMesh(backoff \ cleared)
           ELSE backoff' = backoff \ cleared /\ UNCHANGED <<mesh, linked>>
    BY DEF Heartbeat
  <2> QED BY <2>1
<1>2. CASE ~joined
  <2>1. mesh' = mesh /\ backoff' = b0 /\ linked' = linked
    BY <1>1, <1>2
  <2> DEFINE none == {}
  <2>2. /\ mesh' = (mesh \ none) \cup none
        /\ backoff' = b0 \cup none
        /\ linked' = (linked \cup ((none \cup none) \cap connected)) \ none
        /\ none \subseteq mesh \cup subscribed
        /\ none \subseteq none \cup mesh'
        /\ none \subseteq subscribed \ (Direct \cup backoff')
    BY <2>1
  <2>3. b0 \subseteq backoff
    OBVIOUS
  <2> HIDE DEF none
  <2> QED BY <2>2, <2>3
<1>3. CASE joined
  <2>1. MaintainMesh(b0)
    BY <1>1, <1>3
  <2>2. PICK b1, b2, g1, kept, g2, g3 :
              /\ b1 = b0 \cup Negative(mesh)
              /\ g1 \subseteq Graftable(mesh \ Negative(mesh), b1)
              /\ kept \subseteq (mesh \ Negative(mesh)) \cup g1
              /\ b2 = b1 \cup (((mesh \ Negative(mesh)) \cup g1) \ kept)
              /\ g2 \subseteq Graftable(kept, b2)
              /\ g3 \subseteq OppGraftable(kept \cup g2, b2)
              /\ mesh' = kept \cup g2
              /\ backoff' = b2
              /\ SendControl(g1 \cup g2 \cup g3, (mesh \cup g1) \ kept)
    BY <2>1, MaintainMeshShape
  <2> DEFINE gone == Negative(mesh) \cup (((mesh \ Negative(mesh)) \cup g1) \ kept)
             grafted == (g1 \cap kept) \cup g2
             again == g1 \cup g2 \cup g3
  <2>3. g1 \subseteq subscribed \ (Direct \cup b1) /\ g2 \subseteq subscribed \ (Direct \cup b2)
    BY <2>2 DEF Graftable
  <2>4. g3 \subseteq kept \cup g2
    BY <2>2 DEF OppGraftable
  <2>5. Negative(mesh) \subseteq mesh
    BY DEF Negative
  <2>6. (mesh \cup g1) \ kept = gone
    BY <2>2, <2>3, <2>5
  <2>7. backoff' = b0 \cup gone
    BY <2>2
  <2>8. mesh' = (mesh \ gone) \cup grafted
    BY <2>2, <2>3, <2>5
  <2>9. linked' = (linked \cup ((grafted \cup again) \cap connected)) \ gone
    BY <2>2, <2>6 DEF SendControl
  <2>10. gone \subseteq mesh \cup subscribed /\ again \subseteq gone \cup mesh'
    BY <2>2, <2>3, <2>4, <2>5
  <2>11. grafted \subseteq subscribed \ (Direct \cup backoff')
    BY <2>2, <2>3
  <2> HIDE DEF gone, grafted, again
  <2> QED BY <2>7, <2>8, <2>9, <2>10, <2>11
<1> QED BY <1>2, <1>3

-----------------------------------------------------------------------------

(* A topic that is not joined has no mesh. *)
MeshOfJoined == joined \/ mesh = {}

(* The inductive invariant.  MeshIsLinked needs nothing but the types: a    *)
(* mesh peer is connected, so a GRAFT sent to it arrives.                   *)
IInv == TypeOK /\ MeshIsLinked /\ FanoutHasClock /\ MeshOfJoined

LEMMA InitIInv == Init => IInv
<1> SUFFICES ASSUME Init PROVE IInv
  OBVIOUS
<1>1. ticks \in 0 .. OppTicks - 1
  BY TickAssumption DEF Init
<1>2. TypeOK
  BY <1>1 DEF Init, TypeOK
<1>3. MeshIsLinked /\ FanoutHasClock /\ MeshOfJoined
  BY DEF Init, MeshIsLinked, FanoutHasClock, MeshOfJoined
<1> QED BY <1>2, <1>3 DEF IInv

LEMMA JoinIInv == IInv /\ Join => IInv'
<1> SUFFICES ASSUME IInv, Join PROVE IInv'
  OBVIOUS
<1> USE DEF IInv, TypeOK, MeshIsLinked, FanoutHasClock, MeshOfJoined
<1>1. mesh' \subseteq connected
  BY JoinShape
<1>2. linked' = linked \cup mesh' /\ connected' = connected
  BY <1>1 DEF Join, SendControl, env
<1>3. /\ fanning' \in BOOLEAN /\ fanout' \subseteq connected
      /\ lastpub' \in {NoEntry} \cup 0 .. FanoutTTL
      /\ fanning' => lastpub' # NoEntry
  BY DEF Join, fanVars
<1> QED BY <1>1, <1>2, <1>3 DEF Join, env

LEMMA PublishIInv == IInv /\ Publish => IInv'
<1> SUFFICES ASSUME IInv, Publish PROVE IInv'
  OBVIOUS
<1> USE DEF IInv, TypeOK, MeshIsLinked, FanoutHasClock, MeshOfJoined
<1>1. UNCHANGED <<env, meshVars, ticks, linked>>
  BY DEF Publish
<1>2. CASE UNCHANGED fanVars
  BY <1>1, <1>2 DEF env, meshVars, fanVars
<1>3. CASE lastpub' = 0 /\ UNCHANGED <<fanning, fanout>>
  BY <1>1, <1>3, TickAssumption DEF env, meshVars, NoEntry
<1>4. CASE lastpub' = 0 /\ fanout' \in GetRelayPeers(D, Publishable) /\ fanning' = (fanout' # {})
  <2>1. fanout' \subseteq connected
    BY <1>4, GetRelayPeersSubset DEF Publishable
  <2> QED BY <1>1, <1>4, <2>1, TickAssumption DEF env, meshVars, NoEntry
<1> QED BY <1>2, <1>3, <1>4 DEF Publish

LEMMA HeartbeatIInv == IInv /\ Heartbeat => IInv'
<1> SUFFICES ASSUME IInv, Heartbeat PROVE IInv'
  OBVIOUS
<1> USE DEF IInv, TypeOK, MeshIsLinked, FanoutHasClock, MeshOfJoined
<1>1. PICK b0, gone, grafted, again :
              /\ b0 \subseteq backoff
              /\ mesh' = (mesh \ gone) \cup grafted
              /\ backoff' = b0 \cup gone
              /\ linked' = (linked \cup ((grafted \cup again) \cap connected)) \ gone
              /\ gone \subseteq mesh \cup subscribed
              /\ again \subseteq gone \cup mesh'
              /\ grafted \subseteq subscribed \ (Direct \cup backoff')
  BY HeartbeatShape
<1>2. UNCHANGED <<env, joined>>
  BY DEF Heartbeat
<1>3. mesh' \subseteq connected' /\ mesh' \subseteq linked' /\ linked' \subseteq connected'
      /\ backoff' \subseteq Peer
  BY <1>1, <1>2 DEF env
<1>4. ticks' \in 0 .. OppTicks - 1
  BY TickAssumption DEF Heartbeat
<1>5. lastpub' = Aged /\ fanning' = (fanning /\ ~Expired)
  BY DEF Heartbeat, MaintainFanout
<1>6. Aged \in {NoEntry} \cup 0 .. FanoutTTL
  BY TickAssumption DEF Aged, Expired, NoEntry
<1>7. lastpub # NoEntry /\ ~Expired => Aged # NoEntry
  BY TickAssumption DEF Aged, Expired, NoEntry
<1>8. fanning' \in BOOLEAN /\ (fanning' => lastpub' # NoEntry)
  BY <1>5, <1>7
<1>9. fanout' \subseteq connected'
  <2>1. CASE ~fanning'
    BY <2>1 DEF Heartbeat, MaintainFanout
  <2>2. CASE fanning'
    <3> DEFINE kept == fanout \cap Publishable
               More == IF Cardinality(kept) < D
                       THEN GetRelayPeers(D - Cardinality(kept), (Publishable \ kept) \ Direct)
                       ELSE {{}}
    <3>1. PICK more \in More : fanout' = kept \cup more
      BY <2>2 DEF Heartbeat, MaintainFanout
    <3>2. more \subseteq Publishable
      BY GetRelayPeersSubset
    <3> QED BY <1>2, <3>1, <3>2 DEF Publishable, env
  <2> QED BY <2>1, <2>2
<1>10. joined' \/ mesh' = {}
  BY DEF Heartbeat
<1> QED BY <1>2, <1>3, <1>4, <1>5, <1>6, <1>8, <1>9, <1>10 DEF env

(* The environment's actions. *)
LEMMA EnvIInv ==
    ASSUME IInv, NEW p \in Peer,
           \/ PeerConnects(p) \/ PeerDisconnects(p) \/ PeerSubscribes(p) \/ PeerUnsubscribes(p)
           \/ HandleGraft(p) \/ HandlePrune(p) \/ Rescore \/ Leave
    PROVE  IInv'
<1> USE DEF IInv, TypeOK, MeshIsLinked, FanoutHasClock, MeshOfJoined
<1>1. CASE PeerConnects(p)
  BY <1>1 DEF PeerConnects, meshVars, fanVars
<1>2. CASE PeerDisconnects(p)
  BY <1>2 DEF PeerDisconnects
<1>3. CASE PeerSubscribes(p)
  BY <1>3 DEF PeerSubscribes, meshVars, fanVars
<1>4. CASE PeerUnsubscribes(p)
  BY <1>4 DEF PeerUnsubscribes, meshVars, fanVars
<1>5. CASE HandleGraft(p)
  BY <1>5 DEF HandleGraft, SendControl, env, fanVars
<1>6. CASE HandlePrune(p)
  BY <1>6 DEF HandlePrune, env, fanVars
<1>7. CASE Rescore
  BY <1>7 DEF Rescore, meshVars, fanVars
<1>8. CASE Leave
  BY <1>8 DEF Leave, SendControl, env, fanVars
<1> QED BY <1>1, <1>2, <1>3, <1>4, <1>5, <1>6, <1>7, <1>8

LEMMA StepIInv == IInv /\ [Next]_vars => IInv'
<1> SUFFICES ASSUME IInv, [Next]_vars PROVE IInv'
  OBVIOUS
<1>1. CASE Join
  BY <1>1, JoinIInv
<1>2. CASE Publish
  BY <1>2, PublishIInv
<1>3. CASE Heartbeat
  BY <1>3, HeartbeatIInv
<1>4. CASE Rescore
  BY <1>4 DEF Rescore, IInv, TypeOK, MeshIsLinked, FanoutHasClock, MeshOfJoined, meshVars, fanVars
<1>5. CASE Leave
  BY <1>5 DEF Leave, SendControl, IInv, TypeOK, MeshIsLinked, FanoutHasClock, MeshOfJoined, env, fanVars
<1>6. CASE \E p \in Peer :
             \/ PeerConnects(p) \/ PeerDisconnects(p)
             \/ PeerSubscribes(p) \/ PeerUnsubscribes(p)
             \/ HandleGraft(p) \/ HandlePrune(p)
  BY <1>6, EnvIInv
<1>7. CASE UNCHANGED vars
  BY <1>7 DEF IInv, TypeOK, MeshIsLinked, FanoutHasClock, MeshOfJoined, vars, env, meshVars, fanVars
<1> QED BY <1>1, <1>2, <1>3, <1>4, <1>5, <1>6, <1>7 DEF Next

(* IInv is an invariant. *)
THEOREM Invariance == Spec => []IInv
BY StepIInv, InitIInv, PTL DEF Spec

(* Type correctness. *)
THEOREM TypeCorrect == Spec => []TypeOK
<1>1. IInv => TypeOK
  BY DEF IInv
<1> QED BY <1>1, Invariance, PTL

(* Every mesh peer has us in its own mesh, as far as the GRAFTs and PRUNEs  *)
(* exchanged tell: the heartbeat never re-grafts what it has just pruned.   *)
THEOREM MeshLinked == Spec => []MeshIsLinked
<1>1. IInv => MeshIsLinked
  BY DEF IInv
<1> QED BY <1>1, Invariance, PTL

(* A fanout entry always carries the clock by which it expires. *)
THEOREM FanoutStamped == Spec => []FanoutHasClock
<1>1. IInv => FanoutHasClock
  BY DEF IInv
<1> QED BY <1>1, Invariance, PTL

(* Nothing but join puts a backed-off peer in the mesh. *)
THEOREM BackoffSafe == Spec => BackoffRespected
<1> DEFINE A == mesh' \cap backoff' \subseteq mesh \cap backoff \/ Join
<1>1. IInv /\ [Next]_vars => [A]_vars
  <2> SUFFICES ASSUME IInv, Next PROVE A
    OBVIOUS
  <2>1. CASE Join
    BY <2>1
  <2>2. CASE Publish
    BY <2>2 DEF Publish, meshVars
  <2>3. CASE Heartbeat
    <3>1. TypeOK
      BY DEF IInv
    <3> QED BY <2>3, <3>1, HeartbeatShape
  <2>4. CASE Rescore
    BY <2>4 DEF Rescore, meshVars
  <2>5. CASE Leave
    BY <2>5 DEF Leave
  <2>6. ASSUME NEW p \in Peer,
               \/ PeerConnects(p) \/ PeerDisconnects(p)
               \/ PeerSubscribes(p) \/ PeerUnsubscribes(p)
        PROVE  A
    BY <2>6 DEF PeerConnects, PeerDisconnects, PeerSubscribes, PeerUnsubscribes, meshVars
  <2>7. ASSUME NEW p \in Peer, HandleGraft(p) \/ HandlePrune(p)
        PROVE  A
    BY <2>7 DEF HandleGraft, HandlePrune
  <2> QED BY <2>1, <2>2, <2>3, <2>4, <2>5, <2>6, <2>7 DEF Next
<1> QED BY <1>1, Invariance, PTL DEF Spec, BackoffRespected

(* A direct peer reaches the mesh only out of a promoted fanout. *)
THEOREM DirectSafe == Spec => DirectOnlyByPromotion
<1> DEFINE A == mesh' \cap Direct \subseteq mesh \/ (Join /\ mesh' \cap Direct \subseteq fanout)
<1>1. IInv /\ [Next]_vars => [A]_vars
  <2> SUFFICES ASSUME IInv, Next PROVE A
    OBVIOUS
  <2>1. CASE Join
    BY <2>1, JoinShape
  <2>2. CASE Publish
    BY <2>2 DEF Publish, meshVars
  <2>3. CASE Heartbeat
    <3>1. TypeOK
      BY DEF IInv
    <3> QED BY <2>3, <3>1, HeartbeatShape
  <2>4. CASE Rescore
    BY <2>4 DEF Rescore, meshVars
  <2>5. CASE Leave
    BY <2>5 DEF Leave
  <2>6. ASSUME NEW p \in Peer,
               \/ PeerConnects(p) \/ PeerDisconnects(p)
               \/ PeerSubscribes(p) \/ PeerUnsubscribes(p)
        PROVE  A
    BY <2>6 DEF PeerConnects, PeerDisconnects, PeerSubscribes, PeerUnsubscribes, meshVars
  <2>7. ASSUME NEW p \in Peer, HandleGraft(p) \/ HandlePrune(p)
        PROVE  A
    BY <2>7 DEF HandleGraft, HandlePrune
  <2> QED BY <2>1, <2>2, <2>3, <2>4, <2>5, <2>6, <2>7 DEF Next
<1> QED BY <1>1, Invariance, PTL DEF Spec, DirectOnlyByPromotion

(* Links turn half-open only when a joined topic is subscribed to again. *)
THEOREM HalfOpenSafe == Spec => HalfOpenOnlyByResubscribe
<1> DEFINE A == linked' \ mesh' \subseteq linked \ mesh \/ (joined /\ Join)
<1>1. IInv /\ [Next]_vars => [A]_vars
  <2> SUFFICES ASSUME IInv, Next PROVE A
    OBVIOUS
  <2> USE DEF IInv, MeshOfJoined
  <2>1. CASE Join
    BY <2>1 DEF Join, SendControl
  <2>2. CASE Publish
    BY <2>2 DEF Publish, meshVars
  <2>3. CASE Heartbeat
    BY <2>3, HeartbeatShape
  <2>4. CASE Rescore
    BY <2>4 DEF Rescore, meshVars
  <2>5. CASE Leave
    BY <2>5 DEF Leave, SendControl
  <2>6. ASSUME NEW p \in Peer,
               \/ PeerConnects(p) \/ PeerDisconnects(p)
               \/ PeerSubscribes(p) \/ PeerUnsubscribes(p)
        PROVE  A
    BY <2>6 DEF PeerConnects, PeerDisconnects, PeerSubscribes, PeerUnsubscribes, meshVars
  <2>7. ASSUME NEW p \in Peer, HandleGraft(p) \/ HandlePrune(p)
        PROVE  A
    BY <2>7 DEF HandleGraft, HandlePrune, SendControl
  <2> QED BY <2>1, <2>2, <2>3, <2>4, <2>5, <2>6, <2>7 DEF Next
<1> QED BY <1>1, Invariance, PTL DEF Spec, HalfOpenOnlyByResubscribe

-----------------------------------------------------------------------------

(* The filters of the heartbeat leave finitely many peers. *)
LEMMA FiniteFilters ==
    ASSUME TypeOK
    PROVE  /\ IsFiniteSet(mesh) /\ IsFiniteSet(subscribed) /\ IsFiniteSet(fanout)
           /\ \A m, b : IsFiniteSet(Graftable(m, b))
           /\ IsFiniteSet(Publishable)
<1>1. mesh \in SUBSET Peer /\ subscribed \in SUBSET Peer /\ fanout \in SUBSET Peer
  BY DEF TypeOK
<1>2. IsFiniteSet(mesh) /\ IsFiniteSet(subscribed) /\ IsFiniteSet(fanout)
  BY <1>1, FS_Subset, PeerAssumption
<1>3. \A m, b : Graftable(m, b) \in SUBSET subscribed
  BY DEF Graftable
<1>4. Publishable \in SUBSET subscribed
  BY DEF Publishable
<1> QED BY <1>2, <1>3, <1>4, FS_Subset

(* Every score is an integer. *)
LEMMA ScoreIsInt == ASSUME TypeOK, NEW p \in Peer PROVE score[p] \in Int
BY ScoresAssumption DEF TypeOK

(* The mesh a heartbeat leaves, from the choices it made. *)
LEMMA MeshRepaired ==
    ASSUME TypeOK, NEW b0, MaintainMesh(b0)
    PROVE  /\ \A p \in mesh' : score[p] >= 0
           /\ Cardinality(mesh') < Dlo =>
                 \A p \in subscribed \ (mesh' \cup Direct \cup backoff') : score[p] < 0
           /\ Cardinality(mesh') <= Dhi + Dout
<1>1. PICK b1, b2, low, g1, kept, g2, g3 :
              /\ low = mesh \ Negative(mesh)
              /\ b1 = b0 \cup Negative(mesh)
              /\ g1 \in IF Cardinality(low) < Dlo
                        THEN GetRelayPeers(D - Cardinality(low), Graftable(low, b1))
                        ELSE {{}}
              /\ kept \in IF Cardinality(low \cup g1) > Dhi THEN KeptOf(low \cup g1) ELSE {low \cup g1}
              /\ b2 = b1 \cup ((low \cup g1) \ kept)
              /\ g2 \in IF Cardinality(kept) >= Dlo /\ Dout - Cardinality(kept \cap Outbound) > 0
                        THEN GetRelayPeers(Dout - Cardinality(kept \cap Outbound), Graftable(kept, b2))
                        ELSE {{}}
              /\ g3 \in IF ticks' = 0 /\ Cardinality(kept \cup g2) > 1 /\ Median(kept \cup g2) < OppThreshold
                        THEN GetRelayPeers(OppPeers, OppGraftable(kept \cup g2, b2))
                        ELSE {{}}
              /\ mesh' = kept \cup g2
              /\ backoff' = b2
              /\ SendControl(g1 \cup g2 \cup g3, (mesh \cup g1) \ kept)
  BY MaintainMeshChoices
<1>2. /\ D \in Nat /\ Dlo \in Nat /\ Dhi \in Nat /\ Dout \in Nat
      /\ Dlo <= D /\ D <= Dhi
  BY DegreeAssumption
<1>3. low \in SUBSET mesh /\ IsFiniteSet(low) /\ Cardinality(low) \in Nat
  <2>1. low \in SUBSET mesh
    BY <1>1
  <2> QED BY <2>1, FiniteFilters, FS_Subset, FS_CardinalityType
<1>4. g1 \subseteq Graftable(low, b1) /\ kept \subseteq low \cup g1 /\ g2 \subseteq Graftable(kept, b2)
  BY <1>1, GetRelayPeersSubset, KeptSubset
<1>5. /\ IsFiniteSet(g1) /\ IsFiniteSet(low \cup g1) /\ IsFiniteSet(kept) /\ IsFiniteSet(g2)
      /\ Cardinality(g1) \in Nat /\ Cardinality(low \cup g1) \in Nat
      /\ Cardinality(kept) \in Nat /\ Cardinality(g2) \in Nat
  <2>1. IsFiniteSet(g1) /\ IsFiniteSet(g2)
    BY <1>4, FiniteFilters, FS_Subset
  <2>2. IsFiniteSet(low \cup g1)
    BY <1>3, <2>1, FS_Union
  <2>3. IsFiniteSet(kept)
    BY <1>4, <2>2, FS_Subset
  <2> QED BY <2>1, <2>2, <2>3, FS_CardinalityType
<1>6. \A p \in mesh' : score[p] >= 0
  <2>1. \A p \in low : score[p] >= 0
    <3> SUFFICES ASSUME NEW p \in low PROVE score[p] >= 0
      OBVIOUS
    <3>1. p \in mesh /\ p \in Peer /\ ~(score[p] < 0)
      BY <1>1 DEF Negative, TypeOK
    <3> QED BY <3>1, ScoreIsInt
  <2>2. \A p \in g1 \cup g2 : score[p] >= 0
    BY <1>4 DEF Graftable
  <2> QED BY <1>1, <1>4, <2>1, <2>2
<1> DEFINE WithinReach ==
              /\ Cardinality(kept) <= Dhi
              /\ Cardinality(kept) < Dlo =>
                    \A p \in subscribed \ (mesh' \cup Direct \cup backoff') : score[p] < 0
<1>7. ASSUME Cardinality(low) < Dlo PROVE WithinReach
  <2>1. g1 \in GetRelayPeers(D - Cardinality(low), Graftable(low, b1))
    BY <1>1, <1>7
  <2>2. D - Cardinality(low) \in Int /\ D - Cardinality(low) > 0
    BY <1>2, <1>3, <1>7
  <2>3. /\ Cardinality(g1) <= D - Cardinality(low)
        /\ g1 = Graftable(low, b1) \/ Cardinality(g1) = D - Cardinality(low)
    BY <2>1, <2>2, GetRelayPeersSize, FiniteFilters
  <2>4. Cardinality(low \cup g1) = Cardinality(low) + Cardinality(g1)
    <3>1. low \cap g1 = {}
      BY <1>4 DEF Graftable
    <3> QED BY <1>3, <1>5, <3>1, DisjointUnion
  <2>5. kept = low \cup g1 /\ Cardinality(kept) <= Dhi
    <3>1. ~(Cardinality(low \cup g1) > Dhi)
      BY <1>2, <1>3, <1>5, <2>3, <2>4
    <3>2. kept = low \cup g1
      BY <1>1, <3>1
    <3> QED BY <1>2, <1>5, <3>1, <3>2
  <2>6. Cardinality(g1) = D - Cardinality(low) => Cardinality(kept) >= Dlo
    BY <1>2, <1>3, <2>4, <2>5
  <2>7. g1 = Graftable(low, b1) =>
           \A p \in subscribed \ (mesh' \cup Direct \cup backoff') : score[p] < 0
    <3> SUFFICES ASSUME g1 = Graftable(low, b1), 
                        NEW p \in subscribed \ (mesh' \cup Direct \cup backoff')
                 PROVE  score[p] < 0
      OBVIOUS
    <3>1. p \notin g1 /\ p \notin low /\ p \notin Direct /\ p \notin b1
      BY <1>1, <2>5
    <3>2. ~(score[p] >= 0)
      BY <3>1 DEF Graftable
    <3>3. p \in Peer
      BY DEF TypeOK
    <3> QED BY <3>2, <3>3, ScoreIsInt
  <2>8. Cardinality(kept) < Dlo => ~(Cardinality(kept) >= Dlo)
    BY <1>2, <1>5
  <2> QED BY <2>3, <2>5, <2>6, <2>7, <2>8
<1>8. ASSUME ~(Cardinality(low) < Dlo) PROVE WithinReach
  <2>1. g1 = {} /\ low \cup g1 = low
    BY <1>1, <1>8
  <2>2. ASSUME Cardinality(low \cup g1) > Dhi
        PROVE  Cardinality(kept) >= Dlo /\ Cardinality(kept) <= Dhi
    <3>1. Cardinality(kept) = D
      BY <1>1, <1>5, <2>2, KeptSize
    <3> QED BY <1>2, <3>1
  <2>3. ASSUME ~(Cardinality(low \cup g1) > Dhi)
        PROVE  Cardinality(kept) >= Dlo /\ Cardinality(kept) <= Dhi
    <3>1. kept = low
      BY <1>1, <2>1, <2>3
    <3> QED BY <1>2, <1>3, <1>8, <2>1, <2>3, <3>1
  <2>4. Cardinality(kept) >= Dlo /\ Cardinality(kept) <= Dhi
    BY <2>2, <2>3
  <2> QED BY <1>2, <1>5, <2>4
<1>9. Cardinality(g2) <= Dout
  <2>1. CASE Cardinality(kept) >= Dlo /\ Dout - Cardinality(kept \cap Outbound) > 0
    <3>1. Cardinality(kept \cap Outbound) \in Nat
      BY <1>5, FS_Intersection, FS_CardinalityType
    <3>2. g2 \in GetRelayPeers(Dout - Cardinality(kept \cap Outbound), Graftable(kept, b2))
      BY <1>1, <2>1
    <3>3. Cardinality(g2) <= Dout - Cardinality(kept \cap Outbound)
      BY <1>2, <2>1, <3>1, <3>2, GetRelayPeersSize, FiniteFilters
    <3> QED BY <1>2, <1>5, <3>1, <3>3
  <2>2. CASE ~(Cardinality(kept) >= Dlo /\ Dout - Cardinality(kept \cap Outbound) > 0)
    <3>1. g2 = {}
      BY <1>1, <2>2
    <3> QED BY <1>2, <3>1, FS_EmptySet
  <2> QED BY <2>1, <2>2
<1>10. WithinReach
  BY <1>7, <1>8
<1>11. Cardinality(kept) <= Cardinality(mesh') /\ Cardinality(mesh') <= Cardinality(kept) + Cardinality(g2)
       /\ Cardinality(mesh') \in Nat
  <2>1. IsFiniteSet(mesh') /\ kept \in SUBSET mesh'
        /\ Cardinality(mesh') = Cardinality(kept) + Cardinality(g2) - Cardinality(kept \cap g2)
    BY <1>1, <1>5, FS_Union
  <2>2. Cardinality(kept \cap g2) \in Nat
    BY <1>5, FS_Intersection, FS_CardinalityType
  <2>3. Cardinality(kept) <= Cardinality(mesh') /\ Cardinality(mesh') \in Nat
    BY <2>1, FS_Subset, FS_CardinalityType
  <2> QED BY <1>5, <2>1, <2>2, <2>3
<1> QED BY <1>2, <1>5, <1>6, <1>9, <1>10, <1>11

(* One heartbeat repairs the mesh: nobody of negative score stays, the mesh *)
(* is short only when nobody is left to graft, and it exceeds Dhi by the    *)
(* outbound quota at most.                                                  *)
THEOREM MeshIsRepaired == Spec => HeartbeatRepairs
<1> DEFINE A == Heartbeat /\ joined =>
                   /\ \A p \in mesh' : score[p] >= 0
                   /\ Cardinality(mesh') < Dlo =>
                         \A p \in subscribed \ (mesh' \cup Direct \cup backoff') : score[p] < 0
                   /\ Cardinality(mesh') <= Dhi + Dout
<1>1. IInv /\ [Next]_vars => [A]_vars
  <2> SUFFICES ASSUME IInv, Heartbeat, joined PROVE A
    OBVIOUS
  <2>1. PICK cleared : MaintainMesh(backoff \ cleared)
    BY DEF Heartbeat
  <2>2. TypeOK
    BY DEF IInv
  <2> QED BY <2>1, <2>2, MeshRepaired
<1> QED BY <1>1, Invariance, PTL DEF Spec, HeartbeatRepairs

(* A heartbeat leaves only publishable peers in the fanout, and fewer than  *)
(* D only when it has taken all there are.                                  *)
THEOREM FanoutIsRefilled == Spec => FanoutRefilled
<1> DEFINE A == Heartbeat /\ fanning' =>
                   /\ \A p \in fanout' : p \in subscribed /\ score[p] >= PublishThreshold
                   /\ Cardinality(fanout') < D =>
                         \A p \in subscribed \ (fanout' \cup Direct) : score[p] < PublishThreshold
           kept == fanout \cap Publishable
           Rest == (Publishable \ kept) \ Direct
<1>1. IInv /\ [Next]_vars => [A]_vars
  <2> SUFFICES ASSUME IInv, Heartbeat, fanning' PROVE A
    OBVIOUS
  <2>1. TypeOK
    BY DEF IInv
  <2>2. PICK more \in IF Cardinality(kept) < D
                      THEN GetRelayPeers(D - Cardinality(kept), Rest)
                      ELSE {{}} :
           fanout' = kept \cup more
    BY DEF Heartbeat, MaintainFanout
  <2>3. more \subseteq Rest
    BY <2>2, GetRelayPeersSubset
  <2>4. \A p \in fanout' : p \in subscribed /\ score[p] >= PublishThreshold
    BY <2>2, <2>3 DEF Publishable
  <2>5. /\ IsFiniteSet(kept) /\ Cardinality(kept) \in Nat
        /\ IsFiniteSet(Rest)
        /\ IsFiniteSet(more) /\ Cardinality(more) \in Nat
    <3>1. IsFiniteSet(kept) /\ IsFiniteSet(Rest)
      BY <2>1, FiniteFilters, FS_Intersection, FS_Difference
    <3> QED BY <2>3, <3>1, FS_Subset, FS_CardinalityType
  <2>6. Cardinality(fanout') = Cardinality(kept) + Cardinality(more)
    BY <2>2, <2>3, <2>5, DisjointUnion
  <2>7. ASSUME Cardinality(fanout') < D
        PROVE  \A p \in subscribed \ (fanout' \cup Direct) : score[p] < PublishThreshold
    <3>1. D \in Nat
      BY DegreeAssumption
    <3>2. Cardinality(kept) < D
      BY <2>5, <2>6, <2>7, <3>1
    <3>3. more = Rest
      <4>1. more \in GetRelayPeers(D - Cardinality(kept), Rest)
        BY <2>2, <3>2
      <4>2. D - Cardinality(kept) \in Int /\ D - Cardinality(kept) > 0
        BY <2>5, <3>1, <3>2
      <4> HIDE DEF Rest, kept
      <4>3. more = Rest \/ Cardinality(more) = D - Cardinality(kept)
        BY <2>5, <4>1, <4>2, GetRelayPeersSize
      <4> QED BY <2>5, <2>6, <2>7, <3>1, <4>3
    <3> SUFFICES ASSUME NEW p \in subscribed \ (fanout' \cup Direct)
                 PROVE  score[p] < PublishThreshold
      OBVIOUS
    <3>4. p \notin Publishable
      BY <2>2, <3>3
    <3>5. ~(score[p] >= PublishThreshold)
      BY <3>4 DEF Publishable
    <3>6. p \in Peer
      BY <2>1 DEF TypeOK
    <3> QED BY <2>1, <3>5, <3>6, ScoreIsInt, ThresholdAssumption
  <2> QED BY <2>4, <2>7
<1> QED BY <1>1, Invariance, PTL DEF Spec, FanoutRefilled

-----------------------------------------------------------------------------
(* Gossip *)

(* Whatever is published and announced, the mesh and the fanout take a step *)
(* of theirs or none.                                                       *)
LEMMA GossipStepsMesh == GossipNext => [Next]_vars
  <1> SUFFICES ASSUME GossipNext PROVE [Next]_vars
    OBVIOUS
  <1>1. ASSUME NEW m \in Message, NEW from \in Peer \cup {Self}, PublishMessage(m, from)
        PROVE  [Next]_vars
    BY <1>1 DEF PublishMessage, Next
  <1>2. CASE HeartbeatGossip
    BY <1>2 DEF HeartbeatGossip, Next
  <1>3. ASSUME NEW p \in Peer, DisconnectGossip(p)
        PROVE  [Next]_vars
    BY <1>3 DEF DisconnectGossip, Next
  <1> QED
    BY <1>1, <1>2, <1>3 DEF GossipNext, Next

(* The mesh and the fanout under gossip behave as RelayMesh says, but for   *)
(* the fairness of the heartbeat.                                           *)
THEOREM GossipImplementsMesh == GossipSpec => Init /\ [][Next]_vars
  <1>1. [GossipNext]_allVars => [Next]_vars
    BY GossipStepsMesh DEF allVars
  <1> QED
    BY <1>1, PTL DEF GossipSpec, GossipInit

LEMMA MinOfTwo ==
    ASSUME NEW a \in Int, NEW b \in Int
    PROVE  Min({a, b}) = IF a <= b THEN a ELSE b
  <1>1. \E x \in {a, b} : \A y \in {a, b} : x =< y
    OBVIOUS
  <1>2. Min({a, b}) \in {a, b} /\ \A y \in {a, b} : Min({a, b}) =< y
    BY <1>1 DEF Min
  <1> QED
    BY <1>2

(* _emitGossip tells nobody that it excludes, and nothing that is not in    *)
(* the window.                                                              *)
LEMMA EmitGossipShape ==
    ASSUME NEW exclude, NEW ihave \in EmitGossip(exclude), NEW p \in DOMAIN ihave
    PROVE  p \notin exclude /\ ihave[p] \subseteq GossipIDs
  <1> DEFINE peers == PeersToGossip(exclude)
             All == kSubset(Target(Cardinality(peers)), peers)
  <1>1. PICK chosen \in All : ihave \in [chosen -> Announced]
    <2>1. ihave \in UNION {[chosen -> Announced] : chosen \in All}
      BY DEF EmitGossip
    <2> HIDE DEF All
    <2> QED
      BY <2>1
  <1>2. p \in peers /\ ihave[p] \in Announced
    BY <1>1 DEF kSubset
  <1>3. p \notin exclude
    BY <1>2 DEF PeersToGossip
  <1>4. \A listed \in Announced : listed \subseteq GossipIDs
    BY DEF Announced, kSubset
  <1> QED
    BY <1>2, <1>3, <1>4

(* What one heartbeat tells a peer. *)
LEMMA HeartbeatTells ==
    ASSUME HeartbeatGossip, told \in [Peer -> [Message -> Nat]]
    PROVE  \E forMesh, forFanout :
              /\ forMesh \in (IF joined THEN EmitGossip(mesh') ELSE {<<>>})
              /\ forFanout \in (IF fanning' THEN EmitGossip(fanout') ELSE {<<>>})
              /\ told' \in [Peer -> [Message -> Nat]]
              /\ \A p \in Peer, m \in Message :
                    told'[p][m] = told[p][m] + Times(forMesh, p, m) + Times(forFanout, p, m)
  <1>1. PICK forMesh \in (IF joined THEN EmitGossip(mesh') ELSE {<<>>}),
             forFanout \in (IF fanning' THEN EmitGossip(fanout') ELSE {<<>>}) :
             told' = [p \in Peer |-> [m \in Message |->
                         told[p][m] + Times(forMesh, p, m) + Times(forFanout, p, m)]]
    BY DEF HeartbeatGossip
  <1>2. \A ihave, p, m : Times(ihave, p, m) \in {0, 1}
    BY DEF Times
  <1>3. told' \in [Peer -> [Message -> Nat]]
    BY <1>1, <1>2
  <1> QED
    BY <1>1, <1>3

LEMMA HeartbeatTypes ==
    ASSUME GossipTypeOK, HeartbeatGossip
    PROVE  age' \in [Message -> NotSeen .. HistoryLength]
  <1>1. age' = Shift
    BY DEF HeartbeatGossip
  <1> QED
    BY <1>1, GossipAssumption DEF Shift, GossipTypeOK, NotSeen

(* The state of the gossip stays well-formed, if that of the mesh does.     *)
LEMMA StepGossipTypes == IInv /\ IInv' /\ GossipTypeOK /\ [GossipNext]_allVars => GossipTypeOK'
  <1> SUFFICES ASSUME IInv, IInv', GossipTypeOK, [GossipNext]_allVars
               PROVE  GossipTypeOK'
    OBVIOUS
  <1>0. /\ TypeOK /\ TypeOK'
        /\ age \in [Message -> NotSeen .. HistoryLength] /\ told \in [Peer -> [Message -> Nat]]
        /\ pushed \subseteq connected \X Message
    BY DEF IInv, GossipTypeOK
  <1>1. ASSUME NEW m \in Message, NEW from \in Peer \cup {Self}, PublishMessage(m, from)
        PROVE  GossipTypeOK'
    <2>1. age' \in [Message -> NotSeen .. HistoryLength]
      BY <1>0, <1>1, GossipAssumption DEF PublishMessage, NotSeen
    <2>2. pushed' \subseteq connected' \X Message
      <3>1. CASE ~topicKnown
        BY <1>0, <1>1, <3>1 DEF PublishMessage, vars, env
      <3>2. CASE topicKnown
        <4>1. connected' = connected
          BY <1>1, <3>2 DEF PublishMessage, Publish, env
        <4>2. PICK toSend : pushed' = pushed \cup ((toSend \cap connected) \X {m})
          BY <1>1, <3>2 DEF PublishMessage
        <4> QED
          BY <1>0, <4>1, <4>2
      <3> QED
        BY <3>1, <3>2
    <2>3. told' = told
      BY <1>1 DEF PublishMessage
    <2> QED
      BY <1>0, <2>1, <2>2, <2>3 DEF GossipTypeOK
  <1>2. CASE HeartbeatGossip
    <2>1. pushed' = pushed /\ connected' = connected
      BY <1>2 DEF HeartbeatGossip, Heartbeat, env
    <2>2. told' \in [Peer -> [Message -> Nat]]
      BY <1>0, <1>2, HeartbeatTells
    <2> QED
      BY <1>0, <1>2, <2>1, <2>2, HeartbeatTypes DEF GossipTypeOK
  <1>3. ASSUME NEW p \in Peer, DisconnectGossip(p)
        PROVE  GossipTypeOK'
    <2>1. connected' = connected \ {p} /\ age' = age
      BY <1>3 DEF DisconnectGossip, PeerDisconnects
    <2>2. pushed' \subseteq connected' \X Message
      BY <1>0, <1>3, <2>1 DEF DisconnectGossip
    <2>3. told' \in [Peer -> [Message -> Nat]]
      BY <1>0, <1>3 DEF DisconnectGossip
    <2> QED
      BY <1>0, <2>1, <2>2, <2>3 DEF GossipTypeOK
  <1>4. CASE UNCHANGED gossipVars /\ connected \subseteq connected'
    BY <1>0, <1>4 DEF GossipTypeOK, gossipVars
  <1>5. CASE UNCHANGED allVars
    BY <1>4, <1>5 DEF allVars, vars, env
  <1>6. CASE /\ \/ Join \/ Rescore \/ Leave
                \/ \E p \in Peer : \/ PeerConnects(p) \/ PeerSubscribes(p) \/ PeerUnsubscribes(p)
                                   \/ HandleGraft(p) \/ HandlePrune(p)
             /\ UNCHANGED gossipVars
    <2>1. connected \subseteq connected'
      BY <1>6 DEF Join, Rescore, Leave, PeerConnects, PeerSubscribes, PeerUnsubscribes, HandleGraft,
                  HandlePrune, env
    <2> QED
      BY <1>4, <1>6, <2>1
  <1> QED
    BY <1>1, <1>2, <1>3, <1>5, <1>6 DEF GossipNext

(* How often a message of this age may have been announced to one peer. *)
MayTell(a) == 2 * (IF a = NotSeen THEN 0 ELSE Min({a, HistoryGossip}))

LEMMA StepBounded == GossipTypeOK /\ IHaveBounded /\ [GossipNext]_allVars => IHaveBounded'
  <1> SUFFICES ASSUME GossipTypeOK, IHaveBounded, [GossipNext]_allVars,
                      NEW p \in Peer, NEW m \in Message
               PROVE  told'[p][m] <= MayTell(age'[m])
    BY DEF IHaveBounded, MayTell
  <1> USE GossipAssumption
  <1>1. /\ age \in [Message -> NotSeen .. HistoryLength] /\ told \in [Peer -> [Message -> Nat]]
        /\ told[p][m] <= MayTell(age[m])
    BY DEF GossipTypeOK, IHaveBounded, MayTell
  <1>2. ASSUME NEW a \in NotSeen .. HistoryLength
        PROVE  MayTell(a) = 2 * (IF a = NotSeen THEN 0 ELSE IF a <= HistoryGossip THEN a ELSE HistoryGossip)
    BY MinOfTwo DEF MayTell, NotSeen
  <1> HIDE DEF MayTell
  <1>3. ASSUME NEW n \in Message, NEW from \in Peer \cup {Self}, PublishMessage(n, from)
        PROVE  told'[p][m] <= MayTell(age'[m])
    <2>1. told' = told /\ age[n] = NotSeen /\ age' = [age EXCEPT ![n] = 0]
      BY <1>3 DEF PublishMessage
    <2>2. CASE m = n
      <3>1. age'[m] = 0 /\ MayTell(0) = 0 /\ MayTell(age[m]) = 0
        BY <1>1, <1>2, <2>1, <2>2 DEF NotSeen
      <3> QED
        BY <1>1, <2>1, <3>1
    <2>3. CASE m # n
      BY <1>1, <2>1, <2>3
    <2> QED
      BY <2>2, <2>3
  <1>4. CASE HeartbeatGossip
    <2>1. PICK forMesh, forFanout :
              /\ forMesh \in (IF joined THEN EmitGossip(mesh') ELSE {<<>>})
              /\ forFanout \in (IF fanning' THEN EmitGossip(fanout') ELSE {<<>>})
              /\ told'[p][m] = told[p][m] + Times(forMesh, p, m) + Times(forFanout, p, m)
      BY <1>1, <1>4, HeartbeatTells
    <2>2. ASSUME NEW ihave, NEW exclude, NEW on,
                 ihave \in (IF on THEN EmitGossip(exclude) ELSE {<<>>})
          PROVE  Times(ihave, p, m) = 0 \/ (Times(ihave, p, m) = 1 /\ m \in GossipIDs)
      <3>1. CASE p \in DOMAIN ihave /\ m \in ihave[p]
        <4>1. ihave # <<>>
          BY <3>1
        <4>2. ihave \in EmitGossip(exclude)
          BY <2>2, <4>1
        <4> QED
          BY <3>1, <4>2, EmitGossipShape DEF Times
      <3>2. CASE ~(p \in DOMAIN ihave /\ m \in ihave[p])
        BY <3>2 DEF Times
      <3> QED
        BY <3>1, <3>2
    <2>3. /\ Times(forMesh, p, m) = 0 \/ (Times(forMesh, p, m) = 1 /\ m \in GossipIDs)
          /\ Times(forFanout, p, m) = 0 \/ (Times(forFanout, p, m) = 1 /\ m \in GossipIDs)
      BY <2>1, <2>2
    <2>4. age'[m] = IF age[m] \in 0 .. HistoryLength - 1 THEN age[m] + 1 ELSE age[m]
      BY <1>4 DEF HeartbeatGossip, Shift
    <2>5. age[m] \in NotSeen .. HistoryLength /\ age'[m] \in NotSeen .. HistoryLength
      BY <1>1, <2>4 DEF NotSeen
    <2>6. CASE m \in GossipIDs
      <3>1. age[m] \in 0 .. HistoryGossip - 1 /\ age'[m] = age[m] + 1
        BY <2>4, <2>6 DEF GossipIDs
      <3>2. MayTell(age[m]) = 2 * age[m] /\ MayTell(age'[m]) = 2 * age[m] + 2
        BY <1>2, <2>5, <3>1 DEF NotSeen
      <3>3. told'[p][m] <= told[p][m] + 2 /\ told[p][m] \in Nat /\ told'[p][m] \in Nat
        BY <1>1, <2>1, <2>3
      <3> QED
        BY <1>1, <3>1, <3>2, <3>3
    <2>7. CASE m \notin GossipIDs
      <3>1. told'[p][m] = told[p][m]
        BY <1>1, <2>1, <2>3, <2>7
      <3>2. MayTell(age[m]) <= MayTell(age'[m]) /\ MayTell(age[m]) \in Nat /\ MayTell(age'[m]) \in Nat
        BY <1>2, <2>4, <2>5 DEF NotSeen
      <3> QED
        BY <1>1, <3>1, <3>2
    <2> QED
      BY <2>6, <2>7
  <1>5. ASSUME NEW q \in Peer, DisconnectGossip(q)
        PROVE  told'[p][m] <= MayTell(age'[m])
    <2>1. age' = age /\ (told'[p][m] = told[p][m] \/ told'[p][m] = 0)
      BY <1>1, <1>5 DEF DisconnectGossip
    <2>2. MayTell(age[m]) \in Nat
      BY <1>1, <1>2 DEF NotSeen
    <2> QED
      BY <1>1, <2>1, <2>2
  <1>6. CASE UNCHANGED gossipVars \/ UNCHANGED allVars
    BY <1>1, <1>6 DEF gossipVars, allVars
  <1> QED
    BY <1>3, <1>4, <1>5, <1>6 DEF GossipNext

LEMMA InitGossip == GossipInit => GossipTypeOK /\ IHaveBounded
  <1> SUFFICES ASSUME GossipInit PROVE GossipTypeOK /\ IHaveBounded
    OBVIOUS
  <1>1. TypeOK
    BY InitIInv DEF GossipInit, IInv
  <1>2. GossipTypeOK
    BY <1>1, GossipAssumption DEF GossipInit, GossipTypeOK, NotSeen
  <1>3. IHaveBounded
    BY DEF GossipInit, IHaveBounded, NotSeen
  <1> QED
    BY <1>2, <1>3

LEMMA AlwaysGossip == GossipSpec => [](IInv /\ GossipTypeOK /\ IHaveBounded)
  <1>1. GossipSpec => []IInv
    BY GossipImplementsMesh, StepIInv, InitIInv, PTL
  <1>2. IInv /\ IInv' /\ GossipTypeOK /\ [GossipNext]_allVars => GossipTypeOK'
    BY StepGossipTypes
  <1> QED
    BY <1>1, <1>2, StepBounded, InitGossip, PTL DEF GossipSpec

(* A message is announced to a peer at most twice per heartbeat of the      *)
(* window, whatever the mesh and the fanout do (index.ts, _emitGossip).     *)
THEOREM AnnouncementsBounded == GossipSpec => []IHaveBounded
  BY AlwaysGossip, PTL

(* Every peer of the mesh is still one that the GRAFTs and PRUNEs put there *)
(* while messages are published and announced over it.                      *)
THEOREM GossipKeepsLinks == GossipSpec => []MeshIsLinked
  BY AlwaysGossip, PTL DEF IInv

(* A peer of the mesh is told of a message only on behalf of the fanout     *)
(* entry that a recent publication left behind (relay_heartbeat.ts, the     *)
(* two calls of _emitGossip).                                               *)
THEOREM MeshToldForFanout == GossipSpec => MeshToldOnlyForFanout
  <1> DEFINE A ==
        HeartbeatGossip =>
          \A p \in mesh', m \in Message :
              told'[p][m] > told[p][m] =>
                  fanning' /\ lastpub' \in 0 .. FanoutTTL /\ p \notin fanout'
  <1>1. IInv /\ IInv' /\ GossipTypeOK => [A]_allVars
    <2> SUFFICES ASSUME IInv, IInv', GossipTypeOK, HeartbeatGossip,
                        NEW p \in mesh', NEW m \in Message, told'[p][m] > told[p][m]
                 PROVE  fanning' /\ lastpub' \in 0 .. FanoutTTL /\ p \notin fanout'
      OBVIOUS
    <2>1. p \in Peer /\ told \in [Peer -> [Message -> Nat]]
      BY DEF IInv, TypeOK, GossipTypeOK
    <2>2. PICK forMesh, forFanout :
              /\ forMesh \in (IF joined THEN EmitGossip(mesh') ELSE {<<>>})
              /\ forFanout \in (IF fanning' THEN EmitGossip(fanout') ELSE {<<>>})
              /\ told'[p][m] = told[p][m] + Times(forMesh, p, m) + Times(forFanout, p, m)
      BY <2>1, HeartbeatTells
    <2>3. Times(forMesh, p, m) = 0
      <3>1. CASE joined
        BY <2>2, <3>1, EmitGossipShape DEF Times
      <3>2. CASE ~joined
        BY <2>2, <3>2 DEF Times
      <3> QED
        BY <3>1, <3>2
    <2>4. Times(forFanout, p, m) # 0
      BY <2>1, <2>2, <2>3
    <2>5. p \in DOMAIN forFanout
      BY <2>4 DEF Times
    <2>6. fanning' /\ p \notin fanout'
      BY <2>2, <2>5, EmitGossipShape
    <2>7. lastpub' \in 0 .. FanoutTTL
      BY <2>6 DEF IInv, TypeOK, FanoutHasClock
    <2> QED
      BY <2>6, <2>7
  <1>2. MeshToldOnlyForFanout <=> [][A]_allVars
    BY PTL DEF MeshToldOnlyForFanout
  <1> QED
    BY <1>1, <1>2, AlwaysGossip, PTL

=============================================================================

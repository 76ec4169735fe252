----------------------------- MODULE MeshSelection -----------------------------
(***************************************************************************)
(* The over-full mesh in the heartbeat, on the array the code works on:    *)
(* src/lib/waku_relay/relay_heartbeat.ts, the branch peers.size > Dhi.     *)
(* RelayMesh states the result of this branch as a set of possible         *)
(* selections (KeptOf); here the sort, the shuffle and the two loops of    *)
(* rotations are the code's, and the result is compared with that set.     *)
(*                                                                         *)
(* A behaviour is one run of the branch, an action one of its statements   *)
(* or one round of a loop: the first peer has index 1, not 0.              *)
(***************************************************************************)
EXTENDS Integers, FiniteSets, Functions

CONSTANTS
    Peer,                   \* the peers of the mesh are some of these
    Outbound,               \* those that this node dialed
    Score,                  \* the scores a peer may have
    D, Dhi, Dscore, Dout    \* the watermarks and quotas of the mesh

ASSUME SelectionAssumption ==
    /\ IsFiniteSet(Peer) /\ Outbound \subseteq Peer /\ Score \subseteq Int
    /\ {D, Dhi, Dscore, Dout} \subseteq Nat
    /\ 0 < D /\ D <= Dhi /\ Dscore <= D /\ Dout <= D

VARIABLES
    peers,   \* the mesh when the branch is entered
    score,   \* the cached scores
    arr,     \* peersArray
    chosen,  \* history: peersArray before the rotations
    at,      \* the statement that runs next
    i,       \* the index of the loop that runs
    ihave,   \* outbound peers of the selection that are still to be bubbled up
    ineed,   \* outbound peers wanted from outside the selection
    kept     \* the mesh after the branch

vars == <<peers, score, arr, chosen, at, i, ihave, ineed, kept>>

Size == Cardinality(peers)

FirstOf(a, n) == {a[j] : j \in 1 .. n}

TypeOK ==
    /\ peers \subseteq Peer /\ Size > Dhi
    /\ score \in [Peer -> Score]
    /\ arr \in Bijection(1 .. Size, peers) \cup {<<>>}
    /\ chosen \in Bijection(1 .. Size, peers) \cup {<<>>}
    /\ at \in {"sort", "shuffle", "count", "bubble", "reserve", "prune", "done"}
    /\ i \in 0 .. Size + 1 /\ ihave \in 0 .. D /\ ineed \in 0 .. D
    /\ kept \subseteq peers

Init ==
    /\ peers \in {s \in SUBSET Peer : Cardinality(s) > Dhi}
    /\ score \in [Peer -> Score]
    /\ arr = <<>> /\ chosen = <<>>
    /\ at = "sort"
    /\ i = 0 /\ ihave = 0 /\ ineed = 0
    /\ kept = {}

-----------------------------------------------------------------------------

(* Array.from(peers).sort(...).  The order of the set is that in which its  *)
(* peers happened to be grafted, hence any, and with it that of peers with  *)
(* the same score.                                                          *)
Sort ==
    /\ at = "sort"
    /\ arr' \in {a \in Bijection(1 .. Size, peers) :
                    \A j, k \in 1 .. Size : j < k => score[a[j]] >= score[a[k]]}
    /\ at' = "shuffle"
    /\ UNCHANGED <<peers, score, chosen, i, ihave, ineed, kept>>

(* Mutant of Shuffle: the first Dscore are shuffled as well. *)
ShuffleAll ==
    /\ at = "shuffle"
    /\ arr' \in Bijection(1 .. Size, peers)
    /\ chosen' = arr'
    /\ at' = "count"
    /\ UNCHANGED <<peers, score, i, ihave, ineed, kept>>

(* All but the first Dscore, in any order. *)
Shuffle ==
    /\ at = "shuffle"
    /\ \E tail \in Bijection(Dscore + 1 .. Size, peers \ FirstOf(arr, Dscore)) :
          arr' = [j \in 1 .. Size |-> IF j <= Dscore THEN arr[j] ELSE tail[j]]
    /\ chosen' = arr'
    /\ at' = "count"
    /\ UNCHANGED <<peers, score, i, ihave, ineed, kept>>

(* Mutant of CountOutbound: outbound peers already selected are not moved   *)
(* out of the way of those that come from outside.                          *)
CountUnsafely ==
    /\ at = "count"
    /\ LET outbound == Cardinality({j \in 1 .. D : arr[j] \in Outbound}) IN
       IF outbound < Dout
       THEN at' = "reserve" /\ i' = D + 1 /\ ihave' = 0 /\ ineed' = D - outbound
       ELSE at' = "prune" /\ UNCHANGED <<i, ihave, ineed>>
    /\ UNCHANGED <<peers, score, arr, chosen, kept>>

(* The rotations are for a selection with too few outbound peers; they      *)
(* skip index 0 of the code, so that ihave may stay above zero.             *)
CountOutbound ==
    /\ at = "count"
    /\ LET outbound == Cardinality({j \in 1 .. D : arr[j] \in Outbound}) IN
       IF outbound < Dout
       THEN at' = "bubble" /\ i' = 2 /\ ihave' = outbound /\ ineed' = D - outbound
       ELSE at' = "prune" /\ UNCHANGED <<i, ihave, ineed>>
    /\ UNCHANGED <<peers, score, arr, chosen, kept>>

(* Mutant of Rotate: the loop runs upwards, over what it has just written. *)
RotateUpwards(a, n) ==
    [j \in DOMAIN a |-> IF j = 1 THEN a[n] ELSE IF j <= n THEN a[1] ELSE a[j]]

(* rotate(n): the peer at n moves to the front. *)
Rotate(a, n) ==
    [j \in DOMAIN a |-> IF j = 1 THEN a[n] ELSE IF j <= n THEN a[j - 1] ELSE a[j]]

(* A round of the first loop, over the selection, or its end. *)
Bubble ==
    /\ at = "bubble"
    /\ IF i <= D /\ ihave > 0
       THEN /\ i' = i + 1
            /\ IF arr[i] \in Outbound
               THEN arr' = Rotate(arr, i) /\ ihave' = ihave - 1
               ELSE UNCHANGED <<arr, ihave>>
            /\ UNCHANGED at
       ELSE at' = "reserve" /\ i' = D + 1 /\ UNCHANGED <<arr, ihave>>
    /\ UNCHANGED <<peers, score, chosen, ineed, kept>>

(* A round of the second loop, over the peers outside, or its end. *)
Reserve ==
    /\ at = "reserve"
    /\ IF i <= Size /\ ineed > 0
       THEN /\ i' = i + 1
            /\ IF arr[i] \in Outbound
               THEN arr' = Rotate(arr, i) /\ ineed' = ineed - 1
               ELSE UNCHANGED <<arr, ineed>>
            /\ UNCHANGED at
       ELSE at' = "prune" /\ UNCHANGED <<arr, i, ineed>>
    /\ UNCHANGED <<peers, score, chosen, ihave, kept>>

(* The peers after the first D leave the mesh. *)
Prune ==
    /\ at = "prune"
    /\ kept' = peers \ {arr[j] : j \in D + 1 .. Size}
    /\ at' = "done"
    /\ UNCHANGED <<peers, score, arr, chosen, i, ihave, ineed>>

Next == Sort \/ Shuffle \/ CountOutbound \/ Bubble \/ Reserve \/ Prune

Spec == Init /\ [][Next]_vars

-----------------------------------------------------------------------------
(* What the branch promises *)

(* Exactly D peers stay, although the rotations rearrange the array they    *)
(* are counted in, and no peer from outside the mesh slips in.              *)
KeepsD == at = "done" => Cardinality(kept) = D /\ kept \subseteq peers

(* The outbound quota is met whenever the mesh had the peers for it, and    *)
(* bubbling never drops an outbound peer that was already selected.         *)
KeepsOutbound ==
    at = "done" =>
        /\ Cardinality(kept \cap Outbound) >= Dout \/ peers \cap Outbound \subseteq kept
        /\ FirstOf(chosen, D) \cap Outbound \subseteq kept

(* Array and set agree: what the loops select is one of the selections      *)
(* that RelayMesh allows the heartbeat.                                     *)
Mesh == INSTANCE RelayMesh WITH
    Direct <- {}, Scores <- [Peer -> Score], PublishThreshold <- 0, OppThreshold <- 0,
    Dlo <- D, OppTicks <- 1, OppPeers <- 0, FanoutTTL <- 0,
    connected <- peers, subscribed <- peers, topicKnown <- TRUE,
    joined <- TRUE, mesh <- peers, backoff <- {}, fanning <- FALSE,
    fanout <- {}, lastpub <- -1, ticks <- 0, linked <- peers

SelectionAsInMesh == at = "done" => kept \in Mesh!KeptOf(peers)

=============================================================================

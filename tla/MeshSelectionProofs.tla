-------------------------- MODULE MeshSelectionProofs --------------------------
(***************************************************************************)
(* Theorems about MeshSelection, for every mesh, every scoring and all     *)
(* watermarks and quotas: the rotations of the array select D peers, meet  *)
(* the outbound quota, and select what RelayMesh says.                     *)
(***************************************************************************)
EXTENDS MeshSelection, FiniteSetTheorems, TLAPS

Arrays == Bijection(1 .. Size, peers)

(* The best scored, the selection before the rotations and the one now.     *)
Top == FirstOf(chosen, Dscore)
Sel == FirstOf(chosen, D)
Now == FirstOf(arr, D)
Have == Cardinality(Sel \cap Outbound)

Shuffled == at \in {"count", "bubble", "reserve", "prune", "done"}

(* The array lists the mesh, in descending order before the shuffle.        *)
Listed ==
    /\ at # "sort" => arr \in Arrays
    /\ Shuffled => chosen \in Arrays
    /\ at = "shuffle" => \A j, k \in 1 .. Size : j < k => score[arr[j]] >= score[arr[k]]

(* The shuffle leaves the best scored in front, in their order.             *)
ChosenOrder ==
    Shuffled => \A j, k \in 1 .. Size :
                   j < k /\ j <= Dscore => score[chosen[j]] >= score[chosen[k]]

(* The rotations do not change the order of those that are not outbound.    *)
InnerOrder ==
    Shuffled => \A j, k \in 1 .. Size :
                   j < k /\ arr[j] \notin Outbound /\ arr[k] \notin Outbound /\ arr[k] \in Top
                   => arr[j] \in Top /\ score[arr[j]] >= score[arr[k]]

(* Outbound peers in front, no others up to n. *)
Split(k, n) ==
    /\ \A j \in 1 .. k : arr[j] \in Outbound
    /\ \A j \in k + 1 .. n : arr[j] \notin Outbound

(* The first loop: the selection stays; up to i it is split, and after i it *)
(* has no more outbound peers than ihave counts.                            *)
Bubbling ==
    at = "bubble" =>
        /\ i \in 2 .. D + 1 /\ ihave \in 0 .. D /\ ineed = D - Have /\ Have < Dout
        /\ Now = Sel
        /\ Cardinality({j \in i .. D : arr[j] \in Outbound}) <= ihave
        /\ \E k \in 0 .. i - 1 : Split(k, i - 1)

(* What comes in is outbound, what goes is not, and ineed says how many     *)
(* places are left for the former.                                          *)
Exchanged ==
    /\ Have < Dout /\ ineed \in 0 .. D - Have
    /\ Now \ Sel \subseteq Outbound /\ (Sel \ Now) \cap Outbound = {}
    /\ Cardinality(Now \ Sel) = (D - Have) - ineed

(* The second loop: nothing from i on was in the selection, and nothing     *)
(* between the selection and i is outbound.                                 *)
Reserving ==
    at = "reserve" =>
        /\ i \in D + 1 .. Size + 1
        /\ Exchanged /\ Split(D - ineed, D)
        /\ \A j \in i .. Size : arr[j] \notin Sel
        /\ \A j \in D + 1 .. i - 1 : arr[j] \notin Outbound

(* The selection is final. *)
Selected ==
    \/ Have >= Dout /\ Now = Sel
    \/ Exchanged /\ (ineed = 0 \/ peers \cap Outbound \subseteq Now)

Pruning ==
    /\ at = "count" => arr = chosen
    /\ at \in {"prune", "done"} => Selected
    /\ at = "done" => kept = Now

IInv == TypeOK /\ Listed /\ ChosenOrder /\ InnerOrder /\ Bubbling /\ Reserving /\ Pruning

-----------------------------------------------------------------------------
(* Arrays *)

(* An array lists every element once. *)
LEMMA BijectionFacts ==
    ASSUME NEW m, NEW n, NEW a
    PROVE  a \in Bijection(m, n) <=>
               /\ a \in [m -> n]
               /\ \A j, k \in m : a[j] = a[k] => j = k
               /\ \A t \in n : \E j \in m : a[j] = t
BY DEF Bijection, Injection, Surjection, IsInjective

(* As many elements as positions. *)
LEMMA CountedOnce ==
    ASSUME NEW n \in Nat, NEW S, NEW a \in Bijection(1 .. n, S), NEW J \in SUBSET (1 .. n)
    PROVE  /\ IsFiniteSet(J) /\ IsFiniteSet({a[j] : j \in J})
           /\ Cardinality({a[j] : j \in J}) = Cardinality(J)
<1> DEFINE T == {a[j] : j \in J}
           g == [j \in J |-> a[j]]
<1>1. g \in Bijection(J, T)
  <2>1. \A j, k \in 1 .. n : a[j] = a[k] => j = k
    BY BijectionFacts
  <2>2. /\ g \in [J -> T] /\ \A t \in T : \E j \in J : g[j] = t
        /\ \A j, k \in J : g[j] = g[k] => j = k
    BY <2>1
  <2> HIDE DEF g, T
  <2> QED BY <2>2 DEF Bijection, Injection, Surjection, IsInjective
<1>2. IsFiniteSet(J)
  <2>1. IsFiniteSet(1 .. n)
    BY FS_Interval
  <2> QED BY <2>1, FS_Subset
<1>3. ExistsBijection(J, T)
  BY <1>1 DEF ExistsBijection
<1> HIDE DEF T
<1>4. IsFiniteSet(T) /\ Cardinality(T) = Cardinality(J)
  BY <1>2, <1>3, FS_Bijection
<1> QED BY <1>2, <1>4 DEF T

(* A rotation moves one element to the front and those before it one place  *)
(* back.                                                                    *)
LEMMA RotateFacts ==
    ASSUME NEW n \in Nat, NEW S, NEW a \in Bijection(1 .. n, S), NEW k \in 1 .. n
    PROVE  /\ Rotate(a, k)[1] = a[k]
           /\ \A j \in 2 .. k : Rotate(a, k)[j] = a[j - 1]
           /\ \A j \in k + 1 .. n : Rotate(a, k)[j] = a[j]
           /\ Rotate(a, k) \in Bijection(1 .. n, S)
<1> DEFINE r == Rotate(a, k)
<1>1. /\ a \in [1 .. n -> S]
      /\ \A j, l \in 1 .. n : a[j] = a[l] => j = l
      /\ \A t \in S : \E j \in 1 .. n : a[j] = t
  BY BijectionFacts
<1>2. r \in [1 .. n -> S]
  BY <1>1 DEF Rotate
<1>3. /\ r[1] = a[k]
      /\ \A j \in 2 .. k : r[j] = a[j - 1]
      /\ \A j \in k + 1 .. n : r[j] = a[j]
  BY <1>1 DEF Rotate
<1> HIDE DEF r
<1>4. ASSUME NEW j \in 1 .. n, NEW l \in 1 .. n, r[j] = r[l]
      PROVE  j = l
  <2>1. \A x \in 1 .. n : \/ x = 1 /\ r[x] = a[k]
                          \/ x \in 2 .. k /\ r[x] = a[x - 1] /\ x - 1 \in 1 .. n
                          \/ x \in k + 1 .. n /\ r[x] = a[x]
    BY <1>3
  <2> QED BY <1>1, <1>4, <2>1
<1>5. ASSUME NEW t \in S
      PROVE  \E j \in 1 .. n : r[j] = t
  <2>1. PICK x \in 1 .. n : a[x] = t
    BY <1>1
  <2>2. CASE x = k
    BY <1>3, <2>1, <2>2
  <2>3. CASE x < k
    <3>1. x + 1 \in 2 .. k /\ x + 1 \in 1 .. n /\ (x + 1) - 1 = x
      BY <2>3
    <3> QED BY <1>3, <2>1, <3>1
  <2>4. CASE x > k
    BY <1>3, <2>1, <2>4
  <2> QED BY <2>2, <2>3, <2>4
<1>6. r \in Bijection(1 .. n, S)
  BY <1>2, <1>4, <1>5, BijectionFacts
<1> QED BY <1>3, <1>6 DEF r

(* The numbers are those of a mesh. *)
LEMMA Numbers ==
    ASSUME TypeOK
    PROVE  /\ D \in Nat /\ Dhi \in Nat /\ Dscore \in Nat /\ Dout \in Nat
           /\ 0 < D /\ D <= Dhi /\ Dscore <= D /\ Dout <= D
           /\ Size \in Nat /\ D < Size /\ IsFiniteSet(peers)
<1>1. IsFiniteSet(peers)
  BY SelectionAssumption, FS_Subset DEF TypeOK
<1>2. Size \in Nat
  BY <1>1, FS_CardinalityType DEF Size
<1> QED BY <1>1, <1>2, SelectionAssumption DEF TypeOK

LEMMA ScoreIsInt == ASSUME TypeOK, NEW p \in peers PROVE score[p] \in Int
BY SelectionAssumption DEF TypeOK

(* The selection and what the loops made of it have D peers each.           *)
LEMMA SelectionSize ==
    ASSUME TypeOK, NEW a \in Arrays
    PROVE  /\ FirstOf(a, D) \subseteq peers
           /\ IsFiniteSet(FirstOf(a, D)) /\ Cardinality(FirstOf(a, D)) = D
           /\ Cardinality({j \in 1 .. D : a[j] \in Outbound}) = Cardinality(FirstOf(a, D) \cap Outbound)
           /\ Cardinality(FirstOf(a, D) \cap Outbound) \in 0 .. D
<1>1. a \in [1 .. Size -> peers] /\ 1 .. D \subseteq 1 .. Size /\ D \in Nat /\ Size \in Nat
  BY Numbers, BijectionFacts DEF Arrays
<1>2. FirstOf(a, D) \subseteq peers
  BY <1>1 DEF FirstOf
<1>3. IsFiniteSet(FirstOf(a, D)) /\ Cardinality(FirstOf(a, D)) = D
  <2>1. Cardinality(1 .. D) = D
    BY <1>1, FS_Interval
  <2> DEFINE J == 1 .. D
  <2>2. J \in SUBSET (1 .. Size)
    BY <1>1
  <2> HIDE DEF J
  <2>3. IsFiniteSet({a[j] : j \in J})
    BY <1>1, <2>2, CountedOnce DEF Arrays
  <2>4. Cardinality({a[j] : j \in J}) = Cardinality(J)
    BY <1>1, <2>2, CountedOnce DEF Arrays
  <2> QED BY <2>1, <2>3, <2>4 DEF FirstOf, J
<1>4. Cardinality({j \in 1 .. D : a[j] \in Outbound}) = Cardinality(FirstOf(a, D) \cap Outbound)
  <2> DEFINE J == {j \in 1 .. D : a[j] \in Outbound}
  <2>1. J \in SUBSET (1 .. Size)
    BY <1>1
  <2>2. {a[j] : j \in J} = FirstOf(a, D) \cap Outbound
    BY DEF FirstOf
  <2> HIDE DEF J
  <2>3. Cardinality({a[j] : j \in J}) = Cardinality(J)
    BY <1>1, <2>1, CountedOnce DEF Arrays
  <2> QED BY <2>2, <2>3 DEF J
<1>5. Cardinality(FirstOf(a, D) \cap Outbound) \in 0 .. D
  <2>1. IsFiniteSet(FirstOf(a, D) \cap Outbound)
        /\ Cardinality(FirstOf(a, D) \cap Outbound) <= Cardinality(FirstOf(a, D))
    BY <1>3, FS_Intersection
  <2> QED BY <1>1, <1>3, <2>1, FS_CardinalityType
<1> QED BY <1>2, <1>3, <1>4, <1>5

-----------------------------------------------------------------------------
(* The inductive invariant *)

LEMMA InitIInv == Init => IInv
<1> SUFFICES ASSUME Init PROVE IInv
  OBVIOUS
<1>1. peers \subseteq Peer /\ Size > Dhi
  BY DEF Init, Size
<1>2. IsFiniteSet(peers) /\ Size \in Nat
  BY <1>1, SelectionAssumption, FS_Subset, FS_CardinalityType DEF Size
<1>3. TypeOK
  BY <1>1, <1>2, SelectionAssumption DEF Init, TypeOK
<1> QED
  BY <1>3 DEF Init, IInv, Listed, ChosenOrder, InnerOrder, Bubbling, Reserving, Pruning, Shuffled

LEMMA SortIInv == IInv /\ Sort => IInv'
<1> SUFFICES ASSUME IInv, Sort PROVE IInv'
  OBVIOUS
<1>1. Size' = Size /\ Arrays' = Arrays
  BY DEF Sort, Size, Arrays
<1>2. arr' \in Arrays /\ \A j, k \in 1 .. Size : j < k => score[arr'[j]] >= score[arr'[k]]
  BY DEF Sort, Arrays
<1>3. TypeOK' /\ Listed'
  BY <1>1, <1>2 DEF Sort, IInv, TypeOK, Listed, Arrays, Shuffled
<1> QED
  BY <1>3 DEF Sort, IInv, ChosenOrder, InnerOrder, Bubbling, Reserving, Pruning, Shuffled

(* The shuffled array lists the mesh as well, with the best scored in front.*)
LEMMA ShuffleIInv == IInv /\ Shuffle => IInv'
<1> SUFFICES ASSUME IInv, Shuffle PROVE IInv'
  OBVIOUS
<1> USE DEF IInv
<1>1. Size' = Size /\ Arrays' = Arrays /\ score' = score /\ at = "shuffle"
  BY DEF Shuffle, Size, Arrays
<1>2. /\ Dscore \in Nat /\ Size \in Nat /\ Dscore <= Size
      /\ arr \in [1 .. Size -> peers]
      /\ \A j, k \in 1 .. Size : arr[j] = arr[k] => j = k
      /\ \A t \in peers : \E j \in 1 .. Size : arr[j] = t
      /\ \A j, k \in 1 .. Size : j < k => score[arr[j]] >= score[arr[k]]
  BY <1>1, Numbers, BijectionFacts DEF Listed, Arrays
<1>3. PICK tail \in Bijection(Dscore + 1 .. Size, peers \ FirstOf(arr, Dscore)) :
         arr' = [j \in 1 .. Size |-> IF j <= Dscore THEN arr[j] ELSE tail[j]]
  BY DEF Shuffle
<1>4. /\ tail \in [Dscore + 1 .. Size -> peers \ FirstOf(arr, Dscore)]
      /\ \A j, k \in Dscore + 1 .. Size : tail[j] = tail[k] => j = k
      /\ \A t \in peers \ FirstOf(arr, Dscore) : \E j \in Dscore + 1 .. Size : tail[j] = t
  BY <1>3 DEF Bijection, Injection, Surjection, IsInjective
<1>5. /\ \A j \in 1 .. Dscore : j \in 1 .. Size /\ arr'[j] = arr[j] /\ arr[j] \in FirstOf(arr, Dscore)
      /\ \A j \in Dscore + 1 .. Size :
            j \in 1 .. Size /\ arr'[j] = tail[j] /\ tail[j] \in peers \ FirstOf(arr, Dscore)
      /\ \A j \in 1 .. Size : j \in 1 .. Dscore \/ j \in Dscore + 1 .. Size
  BY <1>2, <1>3, <1>4 DEF FirstOf
<1>6. arr' \in Arrays
  <2>1. arr' \in [1 .. Size -> peers]
    BY <1>2, <1>3, <1>5
  <2>2. ASSUME NEW j \in 1 .. Size, NEW k \in 1 .. Size, arr'[j] = arr'[k] PROVE j = k
    <3>1. CASE j \in 1 .. Dscore
      <4>1. arr'[k] \in FirstOf(arr, Dscore)
        BY <1>5, <2>2, <3>1
      <4>2. k \in 1 .. Dscore
        BY <1>5, <4>1
      <4> QED BY <1>2, <1>5, <2>2, <3>1, <4>2
    <3>2. CASE j \in Dscore + 1 .. Size
      <4>1. arr'[k] \notin FirstOf(arr, Dscore)
        BY <1>5, <2>2, <3>2
      <4>2. k \in Dscore + 1 .. Size
        BY <1>5, <4>1
      <4> QED BY <1>4, <1>5, <2>2, <3>2, <4>2
    <3> QED BY <1>5, <3>1, <3>2
  <2>3. ASSUME NEW t \in peers PROVE \E j \in 1 .. Size : arr'[j] = t
    <3>1. CASE t \in FirstOf(arr, Dscore)
      BY <1>5, <3>1 DEF FirstOf
    <3>2. CASE t \notin FirstOf(arr, Dscore)
      BY <1>4, <1>5, <3>2
    <3> QED BY <3>1, <3>2
  <2> QED BY <2>1, <2>2, <2>3, BijectionFacts DEF Arrays
<1>7. ASSUME NEW j \in 1 .. Size, NEW k \in 1 .. Size, j < k, j <= Dscore
      PROVE  score[arr'[j]] >= score[arr'[k]]
  <2>1. CASE k <= Dscore
    BY <1>2, <1>5, <1>7, <2>1
  <2>2. CASE ~(k <= Dscore)
    <3>1. arr'[k] \in peers \ FirstOf(arr, Dscore)
      BY <1>2, <1>5, <2>2
    <3>2. PICK l \in 1 .. Size : arr[l] = arr'[k]
      BY <1>2, <3>1
    <3>3. ~(l <= Dscore)
      BY <3>1, <3>2 DEF FirstOf
    <3>4. j < l
      BY <1>2, <1>7, <3>3
    <3> QED BY <1>2, <1>5, <1>7, <3>2, <3>4
  <2> QED BY <2>1, <2>2
<1>8. chosen' = arr' /\ at' = "count"
  BY DEF Shuffle
<1>9. InnerOrder'
  <2> SUFFICES ASSUME NEW j \in 1 .. Size, NEW k \in 1 .. Size, j < k, arr'[k] \in Top'
               PROVE  arr'[j] \in Top' /\ score[arr'[j]] >= score[arr'[k]]
    BY <1>1 DEF InnerOrder
  <2>1. PICK l \in 1 .. Dscore : arr'[l] = arr'[k]
    BY <1>8 DEF Top, FirstOf
  <2>2. l = k
    BY <1>2, <1>6, <2>1, BijectionFacts DEF Arrays
  <2>3. j \in 1 .. Dscore
    BY <1>2, <2>2
  <2> QED BY <1>2, <1>7, <1>8, <2>3 DEF Top, FirstOf
<1>10. TypeOK'
  BY <1>1, <1>6, <1>8 DEF Shuffle, TypeOK, Arrays
<1> QED
  BY <1>1, <1>6, <1>7, <1>8, <1>9, <1>10 DEF Listed, ChosenOrder, Bubbling, Reserving, Pruning

LEMMA CountIInv == IInv /\ CountOutbound => IInv'
<1> SUFFICES ASSUME IInv, CountOutbound PROVE IInv'
  OBVIOUS
<1> USE DEF IInv
<1>1. /\ UNCHANGED <<peers, score, arr, chosen, kept>> /\ at = "count" /\ arr = chosen
      /\ arr \in Arrays /\ Shuffled
  BY DEF CountOutbound, Pruning, Listed, Shuffled
<1>2. Size' = Size /\ Arrays' = Arrays /\ Top' = Top /\ Sel' = Sel /\ Now' = Now /\ Have' = Have /\ Now = Sel
  BY <1>1 DEF Size, Arrays, Top, Sel, Now, Have, FirstOf
<1> DEFINE outbound == Cardinality({j \in 1 .. D : arr[j] \in Outbound})
<1>3. outbound = Have /\ Have \in 0 .. D
  BY <1>1, SelectionSize DEF Have, Sel
<1>4. D \in Nat /\ Dout \in Nat /\ 0 < D /\ Size \in Nat /\ D < Size
  BY Numbers
<1>5. Listed' /\ ChosenOrder' /\ InnerOrder'
  BY <1>1, <1>2 DEF Listed, ChosenOrder, InnerOrder, CountOutbound, Shuffled
<1>6. CASE outbound < Dout
  <2>1. at' = "bubble" /\ i' = 2 /\ ihave' = outbound /\ ineed' = D - outbound
    BY <1>6 DEF CountOutbound
  <2>2. Cardinality({j \in 2 .. D : arr[j] \in Outbound}) <= outbound
    <3> DEFINE J == {j \in 1 .. D : arr[j] \in Outbound}
    <3>1. IsFiniteSet(J) /\ {j \in 2 .. D : arr[j] \in Outbound} \in SUBSET J
      <4>1. IsFiniteSet(1 .. D) /\ J \in SUBSET (1 .. D)
        BY <1>4, FS_Interval
      <4>2. IsFiniteSet(J)
        BY <4>1, FS_Subset
      <4> QED BY <1>4, <4>2
    <3> QED BY <3>1, FS_Subset
  <2>3. \E k \in 0 .. 1 : Split(k, 1)
    <3>1. CASE arr[1] \in Outbound
      <4>1. Split(1, 1)
        BY <3>1 DEF Split
      <4> QED BY <4>1
    <3>2. CASE arr[1] \notin Outbound
      <4>1. Split(0, 1)
        BY <3>2 DEF Split
      <4> QED BY <4>1
    <3> QED BY <3>1, <3>2
  <2> HIDE DEF outbound
  <2>4. Bubbling'
    <3>1. \E k \in 0 .. i' - 1 : Split(k, i - 1)'
      BY <1>1, <2>1, <2>3 DEF Split
    <3>2. i' \in 2 .. D + 1 /\ ihave' \in 0 .. D /\ ineed' = D - Have' /\ Have' < Dout
      BY <1>2, <1>3, <1>4, <1>6, <2>1
    <3>3. Cardinality({j \in i' .. D : arr'[j] \in Outbound}) <= ihave'
      BY <1>1, <2>1, <2>2
    <3> QED BY <1>2, <3>1, <3>2, <3>3 DEF Bubbling
  <2>5. TypeOK'
    BY <1>1, <1>2, <1>3, <1>4, <2>1 DEF TypeOK
  <2> QED BY <1>5, <2>1, <2>4, <2>5 DEF Reserving, Pruning
<1>7. CASE ~(outbound < Dout)
  <2>1. at' = "prune" /\ UNCHANGED <<i, ihave, ineed>>
    BY <1>7 DEF CountOutbound
  <2>2. Selected'
    BY <1>2, <1>3, <1>4, <1>7 DEF Selected
  <2>3. TypeOK'
    BY <1>1, <1>2, <2>1 DEF TypeOK
  <2> QED BY <1>5, <2>1, <2>2, <2>3 DEF Bubbling, Reserving, Pruning
<1> QED BY <1>6, <1>7

(* Moving an outbound peer to the front keeps the others in order. *)
LEMMA RotateOrder ==
    ASSUME IInv, Shuffled, NEW n \in 1 .. Size, arr[n] \in Outbound, arr' = Rotate(arr, n),
           UNCHANGED <<peers, score, chosen>>
    PROVE  InnerOrder'
<1>1. Size' = Size /\ Top' = Top /\ Size \in Nat
  BY Numbers DEF Size, Top, IInv
<1>2. arr \in Bijection(1 .. Size, peers)
  BY DEF IInv, Listed, Arrays, Shuffled
<1>3. /\ arr'[1] = arr[n]
      /\ \A j \in 2 .. n : arr'[j] = arr[j - 1]
      /\ \A j \in n + 1 .. Size : arr'[j] = arr[j]
  BY <1>1, <1>2, RotateFacts
<1> SUFFICES ASSUME NEW j \in 1 .. Size, NEW k \in 1 .. Size, j < k,
                    arr'[j] \notin Outbound, arr'[k] \notin Outbound, arr'[k] \in Top
             PROVE  arr'[j] \in Top /\ score[arr'[j]] >= score[arr'[k]]
  BY <1>1 DEF InnerOrder
<1> DEFINE old(x) == IF x <= n THEN x - 1 ELSE x
<1>4. j # 1 /\ k # 1
  BY <1>3
<1>5. \A x \in 2 .. Size : old(x) \in 1 .. Size /\ arr'[x] = arr[old(x)]
  BY <1>1, <1>3
<1>6. old(j) < old(k) /\ j \in 2 .. Size /\ k \in 2 .. Size
  BY <1>1, <1>4
<1> HIDE DEF old
<1>7. /\ old(j) \in 1 .. Size /\ old(k) \in 1 .. Size
      /\ arr'[j] = arr[old(j)] /\ arr'[k] = arr[old(k)]
  BY <1>5, <1>6
<1> QED BY <1>6, <1>7 DEF IInv, InnerOrder

(* What a round of either loop does not change. *)
LEMMA RoundListed ==
    ASSUME IInv, Shuffled, NEW n \in 1 .. Size,
           \/ arr' = arr
           \/ arr[n] \in Outbound /\ arr' = Rotate(arr, n),
           UNCHANGED <<peers, score, chosen>>, Shuffled'
    PROVE  /\ Size' = Size /\ Arrays' = Arrays /\ Top' = Top /\ Sel' = Sel /\ Have' = Have
           /\ arr \in Arrays /\ arr' \in Arrays
           /\ Listed' /\ ChosenOrder' /\ InnerOrder'
<1>1. Size' = Size /\ Arrays' = Arrays /\ Top' = Top /\ Sel' = Sel /\ Have' = Have
  BY DEF Size, Arrays, Top, Sel, Have, FirstOf
<1>2. arr \in Arrays /\ chosen \in Arrays
  BY DEF IInv, Listed, Shuffled
<1>3. arr' \in Arrays /\ InnerOrder'
  <2>1. CASE arr' = arr
    BY <1>1, <1>2, <2>1 DEF IInv, InnerOrder
  <2>2. CASE arr[n] \in Outbound /\ arr' = Rotate(arr, n)
    <3>1. Size \in Nat
      BY Numbers DEF IInv
    <3>2. arr' \in Arrays
      BY <1>2, <2>2, <3>1, RotateFacts DEF Arrays
    <3> QED BY <2>2, <3>2, RotateOrder
  <2> QED BY <2>1, <2>2
<1>4. ChosenOrder'
  BY <1>1 DEF IInv, ChosenOrder
<1>5. Listed'
  BY <1>1, <1>2, <1>3 DEF Listed, Shuffled
<1> QED BY <1>1, <1>2, <1>3, <1>4, <1>5

(* The selection begins with as many outbound peers as it has.              *)
LEMMA SplitCounts ==
    ASSUME TypeOK, arr \in Arrays, NEW k \in 0 .. D, Split(k, D)
    PROVE  k = Cardinality(Now \cap Outbound)
<1>1. D \in Nat
  BY Numbers
<1>2. {j \in 1 .. D : arr[j] \in Outbound} = 1 .. k
  BY <1>1 DEF Split
<1>3. Cardinality(1 .. k) = k
  BY <1>1, FS_Interval
<1> QED BY <1>2, <1>3, SelectionSize DEF Now

LEMMA BubbleIInv == IInv /\ Bubble => IInv'
<1> SUFFICES ASSUME IInv, Bubble PROVE IInv'
  OBVIOUS
<1> USE DEF IInv
<1>1. /\ at = "bubble" /\ UNCHANGED <<peers, score, chosen, ineed, kept>> /\ Shuffled
      /\ at' \in {"bubble", "reserve"} /\ Shuffled'
  BY DEF Bubble, Shuffled
<1>2. /\ i \in 2 .. D + 1 /\ ihave \in 0 .. D /\ ineed = D - Have /\ Have < Dout
      /\ Now = Sel
      /\ Cardinality({j \in i .. D : arr[j] \in Outbound}) <= ihave
  BY <1>1 DEF Bubbling
<1>3. PICK k \in 0 .. i - 1 : Split(k, i - 1)
  BY <1>1 DEF Bubbling
<1>4. D \in Nat /\ 0 < D /\ Size \in Nat /\ D < Size /\ Dout \in Nat
  BY Numbers
<1>5. arr \in Arrays /\ chosen \in Arrays
  BY <1>1 DEF Listed
<1>6. IsFiniteSet({j \in i .. D : arr[j] \in Outbound})
  <2>1. IsFiniteSet(i .. D)
    BY <1>2, <1>4, FS_Interval
  <2>2. {j \in i .. D : arr[j] \in Outbound} \in SUBSET (i .. D)
    OBVIOUS
  <2> QED BY <2>1, <2>2, FS_Subset
<1>7. CASE i <= D /\ ihave > 0 /\ arr[i] \in Outbound
  <2>1. at' = at /\ i' = i + 1 /\ arr' = Rotate(arr, i) /\ ihave' = ihave - 1
    BY <1>7 DEF Bubble
  <2>2. i \in 1 .. Size
    BY <1>2, <1>4, <1>7
  <2>3. /\ Size' = Size /\ Arrays' = Arrays /\ Sel' = Sel /\ Have' = Have
        /\ arr' \in Arrays /\ Listed' /\ ChosenOrder' /\ InnerOrder'
    BY <1>1, <1>7, <2>1, <2>2, RoundListed
  <2>4. /\ arr'[1] = arr[i]
        /\ \A j \in 2 .. i : arr'[j] = arr[j - 1]
        /\ \A j \in i + 1 .. Size : arr'[j] = arr[j]
    BY <1>4, <1>5, <2>1, <2>2, RotateFacts DEF Arrays
  <2>5. Now' = Now
    <3>1. ASSUME NEW j \in 1 .. D PROVE \E l \in 1 .. D : arr'[j] = arr[l]
      <4>1. CASE j = 1
        BY <1>2, <1>7, <2>4, <4>1
      <4>2. CASE j \in 2 .. i
        <5>1. j - 1 \in 1 .. D
          BY <1>2, <1>4, <1>7, <4>2
        <5> QED BY <2>4, <4>2, <5>1
      <4>3. CASE j \in i + 1 .. D
        BY <1>4, <2>4, <4>3
      <4> QED BY <1>2, <1>4, <4>1, <4>2, <4>3
    <3>2. ASSUME NEW l \in 1 .. D PROVE \E j \in 1 .. D : arr'[j] = arr[l]
      <4>1. CASE l = i
        BY <1>4, <2>4, <4>1
      <4>2. CASE l \in 1 .. i - 1
        <5>1. l + 1 \in 1 .. D /\ l + 1 \in 2 .. i /\ (l + 1) - 1 = l
          BY <1>2, <1>4, <1>7, <4>2
        <5> QED BY <2>4, <5>1
      <4>3. CASE l \in i + 1 .. D
        BY <1>4, <2>4, <4>3
      <4> QED BY <1>2, <1>4, <4>1, <4>2, <4>3
    <3> QED BY <3>1, <3>2 DEF Now, FirstOf
  <2>6. Cardinality({j \in i + 1 .. D : arr'[j] \in Outbound}) <= ihave - 1
    <3> DEFINE J == {j \in i .. D : arr[j] \in Outbound}
    <3>1. {j \in i + 1 .. D : arr'[j] \in Outbound} = J \ {i}
      <4>1. \A j \in i + 1 .. D : arr'[j] = arr[j]
        BY <1>2, <1>4, <2>4
      <4> QED BY <1>2, <1>4, <4>1
    <3>2. i \in J
      BY <1>2, <1>4, <1>7
    <3>3. Cardinality(J) \in Nat
      BY <1>6, FS_CardinalityType
    <3>4. Cardinality(J \ {i}) = Cardinality(J) - 1
      BY <1>6, <3>2, FS_RemoveElement
    <3> HIDE DEF J
    <3>5. Cardinality(J) <= ihave
      BY <1>2 DEF J
    <3> QED BY <1>2, <3>1, <3>3, <3>4, <3>5
  <2>7. Split(k + 1, i - 1)'
    <3>1. \A j \in 1 .. k + 1 : arr'[j] \in Outbound
      <4>1. \A j \in 2 .. k + 1 : j \in 2 .. i /\ j - 1 \in 1 .. k
        BY <1>2, <1>3
      <4>2. \A j \in 2 .. k + 1 : arr'[j] \in Outbound
        BY <1>3, <2>4, <4>1 DEF Split
      <4> QED BY <1>3, <1>7, <2>4, <4>2
    <3>2. \A j \in k + 2 .. i : arr'[j] \notin Outbound
      <4>1. \A j \in k + 2 .. i : j \in 2 .. i /\ j - 1 \in k + 1 .. i - 1
        BY <1>2, <1>3
      <4> QED BY <1>3, <2>4, <4>1 DEF Split
    <3>3. i' - 1 = i /\ (k + 1) + 1 = k + 2
      BY <1>2, <1>3, <2>1
    <3> QED BY <3>1, <3>2, <3>3 DEF Split
  <2>8. Bubbling'
    <3>1. k + 1 \in 0 .. i' - 1
      BY <1>2, <1>3, <2>1
    <3>2. i' \in 2 .. D + 1 /\ ihave' \in 0 .. D
      BY <1>2, <1>4, <1>7, <2>1
    <3> QED BY <1>1, <1>2, <2>1, <2>3, <2>5, <2>6, <2>7, <3>1, <3>2 DEF Bubbling
  <2>9. TypeOK'
    <3>1. i' \in 0 .. Size + 1 /\ ihave' \in 0 .. D
      BY <1>2, <1>4, <1>7, <2>1
    <3> QED BY <1>1, <2>1, <2>3, <3>1 DEF TypeOK, Arrays
  <2> QED BY <1>1, <2>1, <2>3, <2>8, <2>9 DEF Reserving, Pruning
<1>8. CASE i <= D /\ ihave > 0 /\ arr[i] \notin Outbound
  <2>1. at' = at /\ i' = i + 1 /\ arr' = arr /\ ihave' = ihave
    BY <1>8 DEF Bubble
  <2>2. i \in 1 .. Size
    BY <1>2, <1>4, <1>8
  <2>3. /\ Size' = Size /\ Arrays' = Arrays /\ Sel' = Sel /\ Have' = Have
        /\ arr' \in Arrays /\ Listed' /\ ChosenOrder' /\ InnerOrder'
    BY <1>1, <2>1, <2>2, RoundListed
  <2>4. Now' = Now
    BY <2>1 DEF Now, FirstOf
  <2>5. Cardinality({j \in i + 1 .. D : arr[j] \in Outbound}) <= ihave
    <3>1. {j \in i + 1 .. D : arr[j] \in Outbound} = {j \in i .. D : arr[j] \in Outbound}
      BY <1>2, <1>4, <1>8
    <3> QED BY <1>2, <3>1
  <2>6. Split(k, i - 1)'
    <3>1. i' - 1 = i
      BY <1>2, <2>1
    <3>2. \A j \in k + 1 .. i : arr[j] \notin Outbound
      <4>1. \A j \in k + 1 .. i : j = i \/ j \in k + 1 .. i - 1
        BY <1>2, <1>3
      <4> QED BY <1>3, <1>8, <4>1 DEF Split
    <3> QED BY <1>3, <2>1, <3>1, <3>2 DEF Split
  <2>7. Bubbling'
    <3>1. k \in 0 .. i' - 1 /\ i' \in 2 .. D + 1
      BY <1>2, <1>3, <1>4, <1>8, <2>1
    <3> QED BY <1>1, <1>2, <2>1, <2>3, <2>4, <2>5, <2>6, <3>1 DEF Bubbling
  <2>8. TypeOK'
    <3>1. i' \in 0 .. Size + 1
      BY <1>2, <1>4, <1>8, <2>1
    <3> QED BY <1>1, <2>1, <2>3, <3>1 DEF TypeOK, Arrays
  <2> QED BY <1>1, <2>1, <2>3, <2>7, <2>8 DEF Reserving, Pruning
<1>9. CASE ~(i <= D /\ ihave > 0)
  <2>1. at' = "reserve" /\ i' = D + 1 /\ arr' = arr /\ ihave' = ihave
    BY <1>9 DEF Bubble
  <2>2. 1 \in 1 .. Size
    BY <1>4
  <2>3. /\ Size' = Size /\ Arrays' = Arrays /\ Sel' = Sel /\ Have' = Have
        /\ arr' \in Arrays /\ Listed' /\ ChosenOrder' /\ InnerOrder'
    BY <1>1, <2>1, <2>2, RoundListed
  <2>4. Now' = Now
    BY <2>1 DEF Now, FirstOf
  <2>5. Split(k, D)
    <3>1. \A j \in i .. D : arr[j] \notin Outbound
      <4>1. CASE ~(i <= D)
        BY <1>2, <1>4, <4>1
      <4>2. CASE ~(ihave > 0)
        <5>1. Cardinality({j \in i .. D : arr[j] \in Outbound}) \in Nat
          BY <1>6, FS_CardinalityType
        <5>2. Cardinality({j \in i .. D : arr[j] \in Outbound}) = 0
          BY <1>2, <4>2, <5>1
        <5>3. {j \in i .. D : arr[j] \in Outbound} = {}
          BY <1>6, <5>2, FS_EmptySet
        <5> QED BY <5>3
      <4> QED BY <1>9, <4>1, <4>2
    <3>2. \A j \in k + 1 .. D : j \in k + 1 .. i - 1 \/ j \in i .. D
      BY <1>2, <1>3, <1>4
    <3> QED BY <1>3, <3>1, <3>2 DEF Split
  <2>6. k = Have
    <3>1. k \in 0 .. D
      BY <1>2, <1>3, <1>4
    <3> QED BY <1>2, <1>5, <2>5, <3>1, SplitCounts DEF Have
  <2>7. Exchanged'
    <3>1. Now \ Sel = {} /\ Sel \ Now = {}
      BY <1>2
    <3>2. Have \in 0 .. D
      BY <1>5, SelectionSize DEF Have, Sel
    <3>3. Cardinality(Now \ Sel) = (D - Have) - ineed
      BY <1>2, <1>4, <3>1, <3>2, FS_EmptySet
    <3>4. ineed \in 0 .. D - Have
      BY <1>2, <1>4, <3>2
    <3> QED BY <1>1, <1>2, <2>3, <2>4, <3>1, <3>3, <3>4 DEF Exchanged
  <2>8. \A j \in i' .. Size : arr[j] \notin Sel
    <3>1. \A j, l \in 1 .. Size : arr[j] = arr[l] => j = l
      BY <1>5, BijectionFacts DEF Arrays
    <3> SUFFICES ASSUME NEW j \in D + 1 .. Size, NEW l \in 1 .. D, arr[j] = arr[l] PROVE FALSE
      BY <1>2, <2>1 DEF Now, FirstOf
    <3>2. j \in 1 .. Size /\ l \in 1 .. Size /\ j # l
      BY <1>4
    <3> QED BY <3>1, <3>2
  <2>9. Split(D - ineed, D)'
    <3>1. D - ineed' = k
      BY <1>1, <1>2, <1>3, <1>4, <2>6
    <3> QED BY <2>1, <2>5, <3>1 DEF Split
  <2>10. Reserving'
    <3>1. i' \in D + 1 .. Size + 1 /\ D + 1 .. i' - 1 = {}
      BY <1>4, <2>1
    <3> QED BY <2>1, <2>3, <2>7, <2>8, <2>9, <3>1 DEF Reserving
  <2>11. TypeOK'
    <3>1. i' \in 0 .. Size + 1
      BY <1>4, <2>1
    <3> QED BY <1>1, <2>1, <2>3, <3>1 DEF TypeOK, Arrays
  <2> QED BY <2>1, <2>3, <2>10, <2>11 DEF Bubbling, Pruning
<1> QED BY <1>7, <1>8, <1>9

LEMMA ReserveIInv == IInv /\ Reserve => IInv'
<1> SUFFICES ASSUME IInv, Reserve PROVE IInv'
  OBVIOUS
<1> USE DEF IInv
<1>1. /\ at = "reserve" /\ UNCHANGED <<peers, score, chosen, ihave, kept>> /\ Shuffled
      /\ at' \in {"reserve", "prune"} /\ Shuffled'
  BY DEF Reserve, Shuffled
<1>2. /\ i \in D + 1 .. Size + 1
      /\ Exchanged /\ Split(D - ineed, D)
      /\ \A j \in i .. Size : arr[j] \notin Sel
      /\ \A j \in D + 1 .. i - 1 : arr[j] \notin Outbound
  BY <1>1 DEF Reserving
<1>3. D \in Nat /\ 0 < D /\ Size \in Nat /\ D < Size /\ Dout \in Nat
  BY Numbers
<1>4. arr \in Arrays /\ chosen \in Arrays
  BY <1>1 DEF Listed
<1>5. Have \in 0 .. D /\ ineed \in 0 .. D - Have
  BY <1>2, <1>4, SelectionSize DEF Have, Sel, Exchanged
<1>6. /\ arr \in [1 .. Size -> peers]
      /\ \A j, l \in 1 .. Size : arr[j] = arr[l] => j = l
      /\ \A t \in peers : \E j \in 1 .. Size : arr[j] = t
  BY <1>4 DEF Arrays, Bijection, Injection, Surjection, IsInjective
<1>7. CASE i <= Size /\ ineed > 0 /\ arr[i] \in Outbound
  <2>1. at' = at /\ i' = i + 1 /\ arr' = Rotate(arr, i) /\ ineed' = ineed - 1
    BY <1>7 DEF Reserve
  <2>2. i \in 1 .. Size /\ D < i
    BY <1>2, <1>3, <1>7
  <2>3. /\ Size' = Size /\ Arrays' = Arrays /\ Sel' = Sel /\ Have' = Have
        /\ arr' \in Arrays /\ Listed' /\ ChosenOrder' /\ InnerOrder'
    BY <1>1, <1>7, <2>1, <2>2, RoundListed
  <2>4. /\ arr'[1] = arr[i]
        /\ \A j \in 2 .. i : arr'[j] = arr[j - 1]
        /\ \A j \in i + 1 .. Size : arr'[j] = arr[j]
    <3>1. i \in 1 .. Size /\ Size \in Nat /\ arr \in Bijection(1 .. Size, peers)
      BY <1>3, <1>4, <2>2 DEF Arrays
    <3> HIDE DEF IInv
    <3> QED BY <2>1, <3>1, RotateFacts
  <2>5. Now' = (Now \ {arr[D]}) \cup {arr[i]}
    <3>1. ASSUME NEW j \in 1 .. D
          PROVE  arr'[j] = arr[i] \/ \E l \in 1 .. D - 1 : arr'[j] = arr[l]
      <4>1. CASE j = 1
        BY <2>4, <4>1
      <4>2. CASE j # 1
        <5>1. j \in 2 .. i /\ j - 1 \in 1 .. D - 1
          BY <1>3, <2>2, <4>2
        <5> QED BY <2>4, <5>1
      <4> QED BY <4>1, <4>2
    <3>2. ASSUME NEW l \in 1 .. D - 1 PROVE \E j \in 1 .. D : arr'[j] = arr[l]
      <4>1. l + 1 \in 1 .. D /\ l + 1 \in 2 .. i /\ (l + 1) - 1 = l
        BY <1>3, <2>2
      <4> QED BY <2>4, <4>1
    <3>3. \E j \in 1 .. D : arr'[j] = arr[i]
      BY <1>3, <2>4
    <3>4. Now \ {arr[D]} = {arr[l] : l \in 1 .. D - 1}
      <4>1. \A l \in 1 .. D : l \in 1 .. Size /\ D \in 1 .. Size
        BY <1>3
      <4>2. \A l \in 1 .. D : arr[l] # arr[D] <=> l \in 1 .. D - 1
        BY <1>3, <1>6, <4>1
      <4> QED BY <1>3, <4>2 DEF Now, FirstOf
    <3>5. Now' \subseteq {arr[l] : l \in 1 .. D - 1} \cup {arr[i]}
      BY <3>1 DEF Now, FirstOf
    <3>6. {arr[l] : l \in 1 .. D - 1} \cup {arr[i]} \subseteq Now'
      BY <3>2, <3>3 DEF Now, FirstOf
    <3> QED BY <3>4, <3>5, <3>6
  <2>6. arr[D] \in Now /\ arr[D] \notin Outbound /\ arr[D] \in Sel
    <3>1. D \in D - ineed + 1 .. D /\ D \in 1 .. D
      BY <1>3, <1>5, <1>7
    <3>2. arr[D] \in Now
      BY <3>1 DEF Now, FirstOf
    <3> QED BY <1>2, <3>1, <3>2 DEF Split, Exchanged
  <2>7. arr[i] \notin Sel /\ arr[i] \notin Now
    <3>1. i \in i .. Size
      BY <2>2
    <3>2. \A j \in 1 .. D : j \in 1 .. Size /\ j # i
      BY <1>3, <2>2
    <3> QED BY <1>2, <1>6, <2>2, <3>1, <3>2 DEF Now, FirstOf
  <2>8. Now' \ Sel = (Now \ Sel) \cup {arr[i]} /\ Sel \ Now' = (Sel \ Now) \cup {arr[D]}
    BY <2>5, <2>6, <2>7
  <2>9. Exchanged'
    <3>1. IsFiniteSet(Now \ Sel) /\ Cardinality(Now \ Sel) = (D - Have) - ineed
      BY <1>2, <1>4, SelectionSize, FS_Difference DEF Now, Exchanged
    <3>2. Cardinality(Now' \ Sel) = ((D - Have) - ineed) + 1
      BY <2>7, <2>8, <3>1, FS_AddElement
    <3>3. ((D - Have) - ineed) + 1 = (D - Have) - ineed' /\ ineed' \in 0 .. D - Have
      BY <1>3, <1>5, <1>7, <2>1
    <3>4. Now' \ Sel \subseteq Outbound /\ (Sel \ Now') \cap Outbound = {}
      BY <1>2, <1>7, <2>6, <2>8 DEF Exchanged
    <3>5. Have < Dout
      BY <1>2 DEF Exchanged
    <3> QED BY <2>3, <3>2, <3>3, <3>4, <3>5 DEF Exchanged
  <2>10. Split(D - ineed, D)'
    <3>1. D - ineed' = (D - ineed) + 1
      BY <1>3, <1>5, <2>1
    <3>2. \A j \in 1 .. (D - ineed) + 1 : arr'[j] \in Outbound
      <4>1. \A j \in 2 .. (D - ineed) + 1 : j \in 2 .. i /\ j - 1 \in 1 .. D - ineed
        BY <1>3, <1>5, <2>2
      <4>2. \A j \in 2 .. (D - ineed) + 1 : arr'[j] \in Outbound
        BY <1>2, <2>4, <4>1 DEF Split
      <4>3. \A j \in 1 .. (D - ineed) + 1 : j = 1 \/ j \in 2 .. (D - ineed) + 1
        BY <1>3, <1>5
      <4> QED BY <1>7, <2>4, <4>2, <4>3
    <3>3. \A j \in ((D - ineed) + 1) + 1 .. D : arr'[j] \notin Outbound
      <4>1. \A j \in ((D - ineed) + 1) + 1 .. D : j \in 2 .. i /\ j - 1 \in D - ineed + 1 .. D
        BY <1>3, <1>5, <2>2
      <4> QED BY <1>2, <2>4, <4>1 DEF Split
    <3> QED BY <3>1, <3>2, <3>3 DEF Split
  <2>11. \A j \in i' .. Size : arr'[j] \notin Sel
    <3>1. \A j \in i + 1 .. Size : j \in i .. Size /\ arr'[j] = arr[j]
      BY <2>2, <2>4
    <3> QED BY <1>2, <2>1, <3>1
  <2>12. \A j \in D + 1 .. i' - 1 : arr'[j] \notin Outbound
    <3>1. \A j \in D + 1 .. i' - 1 : j \in 2 .. i /\ (j - 1 = D \/ j - 1 \in D + 1 .. i - 1)
      BY <1>3, <2>1, <2>2
    <3> QED BY <1>2, <2>4, <2>6, <3>1
  <2>13. i' \in D + 1 .. Size + 1 /\ ineed' \in 0 .. D /\ i' \in 0 .. Size + 1
    BY <1>2, <1>3, <1>5, <1>7, <2>1
  <2>14. Reserving'
    BY <2>3, <2>9, <2>10, <2>11, <2>12, <2>13 DEF Reserving
  <2>15. TypeOK'
    BY <1>1, <2>1, <2>3, <2>13 DEF TypeOK, Arrays
  <2> QED BY <1>1, <2>1, <2>3, <2>14, <2>15 DEF Bubbling, Pruning
<1>8. CASE i <= Size /\ ineed > 0 /\ arr[i] \notin Outbound
  <2>1. at' = at /\ i' = i + 1 /\ arr' = arr /\ ineed' = ineed
    BY <1>8 DEF Reserve
  <2>2. i \in 1 .. Size
    BY <1>2, <1>3, <1>8
  <2>3. /\ Size' = Size /\ Arrays' = Arrays /\ Sel' = Sel /\ Have' = Have
        /\ arr' \in Arrays /\ Listed' /\ ChosenOrder' /\ InnerOrder'
    BY <1>1, <2>1, <2>2, RoundListed
  <2>4. Now' = Now
    BY <2>1 DEF Now, FirstOf
  <2>5. /\ \A j \in i + 1 .. Size : arr[j] \notin Sel
        /\ \A j \in D + 1 .. i : arr[j] \notin Outbound
    <3>1. \A j \in i + 1 .. Size : j \in i .. Size
      BY <2>2
    <3>2. \A j \in D + 1 .. i : j = i \/ j \in D + 1 .. i - 1
      BY <1>3, <2>2
    <3> QED BY <1>2, <1>8, <3>1, <3>2
  <2>6. i' \in D + 1 .. Size + 1 /\ i' \in 0 .. Size + 1 /\ i' - 1 = i
    BY <1>2, <1>3, <1>8, <2>1
  <2>7. Exchanged' /\ Split(D - ineed, D)'
    BY <1>2, <2>1, <2>3, <2>4 DEF Exchanged, Split
  <2>8. Reserving'
    BY <2>1, <2>3, <2>5, <2>6, <2>7 DEF Reserving
  <2>9. TypeOK'
    BY <1>1, <2>1, <2>3, <2>6 DEF TypeOK, Arrays
  <2> QED BY <1>1, <2>1, <2>3, <2>8, <2>9 DEF Bubbling, Pruning
<1>9. CASE ~(i <= Size /\ ineed > 0)
  <2>1. at' = "prune" /\ UNCHANGED <<arr, i, ineed>>
    BY <1>9 DEF Reserve
  <2>2. 1 \in 1 .. Size
    BY <1>3
  <2>3. /\ Size' = Size /\ Arrays' = Arrays /\ Sel' = Sel /\ Have' = Have
        /\ arr' \in Arrays /\ Listed' /\ ChosenOrder' /\ InnerOrder'
    BY <1>1, <2>1, <2>2, RoundListed
  <2>4. Now' = Now
    BY <2>1 DEF Now, FirstOf
  <2>5. ineed = 0 \/ peers \cap Outbound \subseteq Now
    <3> SUFFICES ASSUME ineed # 0, NEW p \in peers \cap Outbound PROVE p \in Now
      OBVIOUS
    <3>1. i = Size + 1
      BY <1>2, <1>3, <1>5, <1>9
    <3>2. PICK j \in 1 .. Size : arr[j] = p
      BY <1>6
    <3>3. j \notin D + 1 .. Size
      BY <1>2, <1>3, <3>1, <3>2
    <3>4. j \in 1 .. D
      BY <1>3, <3>3
    <3> QED BY <3>2, <3>4 DEF Now, FirstOf
  <2>6. Selected'
    BY <1>1, <1>2, <2>1, <2>3, <2>4, <2>5 DEF Selected, Exchanged
  <2>7. TypeOK'
    BY <1>1, <2>1, <2>3 DEF TypeOK, Arrays
  <2> QED BY <2>1, <2>3, <2>6, <2>7 DEF Bubbling, Reserving, Pruning
<1> QED BY <1>7, <1>8, <1>9

LEMMA PruneIInv == IInv /\ Prune => IInv'
<1> SUFFICES ASSUME IInv, Prune PROVE IInv'
  OBVIOUS
<1> USE DEF IInv
<1>1. /\ at = "prune" /\ at' = "done" /\ UNCHANGED <<peers, score, arr, chosen, i, ihave, ineed>>
      /\ kept' = peers \ {arr[j] : j \in D + 1 .. Size}
      /\ Shuffled /\ Shuffled'
  BY DEF Prune, Shuffled
<1>2. D \in Nat /\ Size \in Nat /\ D < Size
  BY Numbers
<1>3. /\ Size' = Size /\ Arrays' = Arrays /\ Sel' = Sel /\ Have' = Have /\ Now' = Now
      /\ arr \in Arrays /\ Listed' /\ ChosenOrder' /\ InnerOrder'
  <2>1. 1 \in 1 .. Size /\ Now' = Now
    BY <1>1, <1>2 DEF Now, FirstOf
  <2> QED BY <1>1, <2>1, RoundListed
<1>4. /\ arr \in [1 .. Size -> peers]
      /\ \A j, l \in 1 .. Size : arr[j] = arr[l] => j = l
      /\ \A t \in peers : \E j \in 1 .. Size : arr[j] = t
  BY <1>3 DEF Arrays, Bijection, Injection, Surjection, IsInjective
<1>5. kept' = Now
  <2>1. \A j \in 1 .. Size : j \in 1 .. D <=> j \notin D + 1 .. Size
    BY <1>2
  <2>2. \A j \in 1 .. D : j \in 1 .. Size
    BY <1>2
  <2>3. \A j \in D + 1 .. Size : j \in 1 .. Size
    BY <1>2
  <2>4. ASSUME NEW p \in kept' PROVE p \in Now
    BY <1>1, <1>4, <2>1, <2>4 DEF Now, FirstOf
  <2>5. ASSUME NEW p \in Now PROVE p \in kept'
    <3>1. PICK j \in 1 .. D : arr[j] = p
      BY DEF Now, FirstOf
    <3>2. p \in peers
      BY <1>4, <2>2, <3>1
    <3>3. \A l \in D + 1 .. Size : arr[l] # p
      BY <1>4, <2>1, <2>2, <2>3, <3>1
    <3> QED BY <1>1, <3>2, <3>3
  <2> QED BY <2>4, <2>5
<1>6. Selected'
  BY <1>1, <1>3 DEF Pruning, Selected, Exchanged
<1>7. TypeOK'
  BY <1>1, <1>3 DEF TypeOK, Arrays
<1> QED BY <1>1, <1>3, <1>5, <1>6, <1>7 DEF Bubbling, Reserving, Pruning

LEMMA NextIInv == IInv /\ [Next]_vars => IInv'
<1> SUFFICES ASSUME IInv, [Next]_vars PROVE IInv'
  OBVIOUS
<1>1. CASE UNCHANGED vars
  <2>1. Size' = Size /\ Arrays' = Arrays /\ Top' = Top /\ Sel' = Sel /\ Now' = Now /\ Have' = Have
        /\ (Shuffled' <=> Shuffled)
    BY <1>1 DEF vars, Size, Arrays, Top, Sel, Now, Have, FirstOf, Shuffled
  <2>2. TypeOK'
    BY <1>1, <2>1 DEF IInv, TypeOK, vars
  <2>3. Listed' /\ ChosenOrder' /\ InnerOrder'
    BY <1>1, <2>1 DEF IInv, Listed, ChosenOrder, InnerOrder, vars
  <2>4. Exchanged' <=> Exchanged
    BY <1>1, <2>1 DEF Exchanged, vars
  <2>5. Bubbling' /\ Reserving' /\ Pruning'
    BY <1>1, <2>1, <2>4 DEF IInv, Bubbling, Reserving, Pruning, Selected, Split, vars
  <2> QED BY <2>2, <2>3, <2>5 DEF IInv
<1> QED
  BY <1>1, SortIInv, ShuffleIInv, CountIInv, BubbleIInv, ReserveIInv, PruneIInv DEF Next

(* The invariant holds of every run of the branch. *)
THEOREM SelectionInvariance == Spec => []IInv
BY InitIInv, NextIInv, PTL DEF Spec

-----------------------------------------------------------------------------

(* What is kept, in terms of the selection before the rotations.            *)
LEMMA KeptFacts ==
    ASSUME IInv, at = "done"
    PROVE  /\ kept = Now /\ kept \subseteq peers
           /\ IsFiniteSet(kept) /\ Cardinality(kept) = D
           /\ Sel \subseteq peers /\ IsFiniteSet(Sel) /\ Cardinality(Sel) = D
           /\ Have \in 0 .. D
           /\ Selected
<1>1. arr \in Arrays /\ chosen \in Arrays /\ TypeOK
  BY DEF IInv, Listed, Shuffled
<1>2. kept = Now /\ Selected
  BY DEF IInv, Pruning
<1>3. Now \subseteq peers /\ IsFiniteSet(Now) /\ Cardinality(Now) = D
  BY <1>1, SelectionSize DEF Now
<1>4. Sel \subseteq peers /\ IsFiniteSet(Sel) /\ Cardinality(Sel) = D /\ Have \in 0 .. D
  BY <1>1, SelectionSize DEF Sel, Have
<1> QED BY <1>2, <1>3, <1>4

(* Exactly D peers of the mesh stay, however often the array was rotated.   *)
THEOREM KeepsExactlyD == Spec => []KeepsD
<1>1. IInv => KeepsD
  BY KeptFacts DEF KeepsD
<1> QED BY <1>1, SelectionInvariance, PTL

(* The rotations drop no outbound peer of the selection, and bring in as    *)
(* many as the quota wants or as there are.                                 *)
THEOREM KeepsTheOutbound == Spec => []KeepsOutbound
<1>1. ASSUME IInv, at = "done"
      PROVE  /\ Cardinality(kept \cap Outbound) >= Dout \/ peers \cap Outbound \subseteq kept
             /\ Sel \cap Outbound \subseteq kept
  <2>1. TypeOK /\ D \in Nat /\ Dout \in Nat /\ Dout <= D
    BY <1>1, Numbers DEF IInv
  <2>2. CASE Have >= Dout /\ Now = Sel
    BY <1>1, <2>2, KeptFacts DEF Have
  <2>3. CASE Exchanged /\ (ineed = 0 \/ peers \cap Outbound \subseteq Now)
    <3>1. Sel \cap Outbound \subseteq kept
      BY <1>1, <2>3, KeptFacts DEF Exchanged
    <3>2. CASE ineed = 0
      <4> DEFINE in == Sel \cap Outbound
                 new == kept \ Sel
      <4>1. kept \cap Outbound = in \cup new /\ in \cap new = {}
        BY <1>1, <2>3, <3>1, KeptFacts DEF Exchanged
      <4>2. IsFiniteSet(in) /\ IsFiniteSet(new)
        BY <1>1, KeptFacts, FS_Intersection, FS_Difference
      <4>3. Cardinality(in) = Have /\ Cardinality(new) = (D - Have) - 0
        BY <1>1, <2>3, <3>2, KeptFacts DEF Exchanged, Have
      <4> HIDE DEF in, new
      <4>4. Cardinality(in \cap new) = 0
        BY <4>1, FS_EmptySet
      <4>5. Cardinality(in \cup new) = Cardinality(in) + Cardinality(new) - Cardinality(in \cap new)
        BY <4>2, FS_Union
      <4>6. Have \in 0 .. D
        BY <1>1, KeptFacts
      <4>7. Cardinality(in \cup new) = Have + (((D - Have) - 0) - 0)
        BY <4>3, <4>4, <4>5
      <4>8. Have + (((D - Have) - 0) - 0) = D
        BY <2>1, <4>6
      <4>9. Cardinality(kept \cap Outbound) = D
        BY <4>1, <4>7, <4>8
      <4> QED BY <2>1, <3>1, <4>9
    <3>3. CASE peers \cap Outbound \subseteq Now
      BY <1>1, <3>1, <3>3, KeptFacts
    <3> QED BY <2>3, <3>2, <3>3
  <2> QED BY <1>1, <2>2, <2>3, KeptFacts DEF Selected
<1>2. IInv => KeepsOutbound
  BY <1>1 DEF KeepsOutbound, Sel
<1> QED BY <1>2, SelectionInvariance, PTL

-----------------------------------------------------------------------------
(* The selection of RelayMesh *)

(* As many move as there are places, or all there are. *)
LEMMA HowManyMove ==
    ASSUME NEW places \in Nat, NEW there \in Nat, NEW left \in 0 .. places,
           NEW come, come = places - left, come <= there, left = 0 \/ come = there
    PROVE  Mesh!Min({places, there}) = come
BY DEF Mesh!Min

(* The cardinality that RelayMesh speaks of. *)
LEMMA SameCardinality == \A S : Mesh!Cardinality(S) = Cardinality(S)
BY DEF Mesh!Cardinality, Cardinality

LEMMA SameSubsets ==
    \A k, S : Mesh!kSubset(k, S) = {t \in SUBSET S : Cardinality(t) = k}
BY SameCardinality DEF Mesh!kSubset

(* A selection with its last inner peers exchanged for outbound ones is one *)
(* of RelayMesh's.                                                          *)
LEMMA IsRebalanced ==
    ASSUME NEW m, NEW top, NEW sel, NEW moved, NEW gone, NEW came,
           moved = IF Cardinality(sel \cap Outbound) < Dout
                   THEN Mesh!Min({D - Cardinality(sel \cap Outbound),
                                  Cardinality((m \ sel) \cap Outbound)})
                   ELSE 0,
           gone \subseteq sel \ Outbound, Cardinality(gone) = moved,
           came \subseteq (m \ sel) \cap Outbound, Cardinality(came) = moved,
           \A p \in gone, q \in (sel \ Outbound) \ gone :
              p \in top => q \in top /\ score[p] <= score[q]
    PROVE  (sel \ gone) \cup came \in Mesh!Rebalanced(m, top, sel)
<1> DEFINE quota == IF Mesh!Cardinality(sel \cap Outbound) < Dout
                    THEN Mesh!Min({D - Mesh!Cardinality(sel \cap Outbound),
                                   Mesh!Cardinality((m \ sel) \cap Outbound)})
                    ELSE 0
           LastOf(g) == \A p \in g, q \in (sel \ Outbound) \ g :
                           p \in top => q \in top /\ score[p] <= score[q]
           Gone == {g \in Mesh!kSubset(quota, sel \ Outbound) : LastOf(g)}
           Came == Mesh!kSubset(quota, (m \ sel) \cap Outbound)
<1>1. Mesh!Rebalanced(m, top, sel) = {(sel \ g) \cup c : g \in Gone, c \in Came}
  BY DEF Mesh!Rebalanced
<1>2. moved = quota
  <2>1. /\ Mesh!Cardinality(sel \cap Outbound) = Cardinality(sel \cap Outbound)
        /\ Mesh!Cardinality((m \ sel) \cap Outbound) = Cardinality((m \ sel) \cap Outbound)
    BY SameCardinality
  <2> QED BY <2>1
<1> HIDE DEF quota
<1>3. gone \in Gone /\ came \in Came
  BY <1>2, SameSubsets
<1> HIDE DEF Gone, Came
<1> QED BY <1>1, <1>3

(* The first Dscore of the array are best scored, and the rest of the       *)
(* selection is any.                                                        *)
LEMMA SelectionBeforeRotations ==
    ASSUME IInv, at = "done"
    PROVE  /\ Top \in Mesh!BestScored(peers)
           /\ Sel \ Top \in Mesh!kSubset(D - Dscore, peers \ Top)
           /\ Sel = Top \cup (Sel \ Top)
<1>1. /\ TypeOK /\ chosen \in Arrays
      /\ \A j, k \in 1 .. Size : j < k /\ j <= Dscore => score[chosen[j]] >= score[chosen[k]]
  BY DEF IInv, Listed, Shuffled, ChosenOrder
<1>2. /\ D \in Nat /\ Dscore \in Nat /\ Size \in Nat /\ Dscore <= D /\ D < Size
      /\ 1 .. Dscore \subseteq 1 .. Size /\ 1 .. Dscore \subseteq 1 .. D
  BY <1>1, Numbers
<1>3. /\ chosen \in [1 .. Size -> peers]
      /\ \A t \in peers : \E j \in 1 .. Size : chosen[j] = t
  BY <1>1 DEF Arrays, Bijection, Injection, Surjection, IsInjective
<1>4. Top \subseteq Sel /\ Sel \subseteq peers /\ IsFiniteSet(Sel) /\ Cardinality(Sel) = D
  <2>1. Top \subseteq Sel
    BY <1>2 DEF Top, Sel, FirstOf
  <2> QED BY <2>1, KeptFacts
<1>5. IsFiniteSet(Top) /\ Cardinality(Top) = Dscore
  <2>1. /\ IsFiniteSet({chosen[j] : j \in 1 .. Dscore})
        /\ Cardinality({chosen[j] : j \in 1 .. Dscore}) = Cardinality(1 .. Dscore)
    <3> DEFINE J == 1 .. Dscore
    <3>1. chosen \in Bijection(1 .. Size, peers) /\ J \in SUBSET (1 .. Size) /\ Size \in Nat
      BY <1>1, <1>2 DEF Arrays
    <3> HIDE DEF J
    <3>2. IsFiniteSet({chosen[j] : j \in J}) /\ Cardinality({chosen[j] : j \in J}) = Cardinality(J)
      BY <3>1, CountedOnce
    <3> QED BY <3>2 DEF J
  <2>2. Cardinality(1 .. Dscore) = Dscore
    BY <1>2, FS_Interval
  <2> QED BY <2>1, <2>2 DEF Top, FirstOf
<1>6. \A p \in Top, q \in peers \ Top : score[p] >= score[q]
  <2> SUFFICES ASSUME NEW p \in Top, NEW q \in peers \ Top
               PROVE  score[p] >= score[q]
    OBVIOUS
  <2>1. PICK j \in 1 .. Dscore : chosen[j] = p
    BY DEF Top, FirstOf
  <2>2. PICK k \in 1 .. Size : chosen[k] = q
    BY <1>3
  <2>3. k \notin 1 .. Dscore
    BY <2>2 DEF Top, FirstOf
  <2>4. j \in 1 .. Size /\ j < k /\ j <= Dscore
    BY <1>2, <2>3
  <2> QED BY <1>1, <2>1, <2>2, <2>4
<1>7. Cardinality(Sel \ Top) = D - Dscore
  <2>1. Sel \cap Top = Top
    BY <1>4
  <2>2. Cardinality(Sel \ Top) = Cardinality(Sel) - Cardinality(Sel \cap Top)
    BY <1>4, FS_Difference
  <2> QED BY <1>4, <1>5, <2>1, <2>2
<1>8. Top \in Mesh!kSubset(Dscore, peers)
  BY <1>4, <1>5, SameSubsets
<1>9. Sel \ Top \in Mesh!kSubset(D - Dscore, peers \ Top)
  BY <1>4, <1>7, SameSubsets
<1> QED BY <1>4, <1>6, <1>8, <1>9 DEF Mesh!BestScored

(* As many go as come, and those that go are the last of the inner peers,   *)
(* the best scored among them in the reverse of their order.                *)
LEMMA RotationsExchange ==
    ASSUME IInv, at = "done"
    PROVE  /\ Cardinality(Sel \ Now) = Cardinality(Now \ Sel)
           /\ \A p \in Sel \ Now, q \in (Sel \ Outbound) \ (Sel \ Now) :
                 p \notin Outbound /\ p \in Top => q \in Top /\ score[p] <= score[q]
<1>1. /\ kept = Now /\ IsFiniteSet(Now) /\ Cardinality(Now) = D
      /\ Sel \subseteq peers /\ IsFiniteSet(Sel) /\ Cardinality(Sel) = D
  BY KeptFacts
<1>2. /\ TypeOK /\ arr \in Arrays
      /\ \A j, k \in 1 .. Size :
            j < k /\ arr[j] \notin Outbound /\ arr[k] \notin Outbound /\ arr[k] \in Top
            => arr[j] \in Top /\ score[arr[j]] >= score[arr[k]]
  BY DEF IInv, Listed, Shuffled, InnerOrder
<1>3. Cardinality(Sel \ Now) = Cardinality(Now \ Sel)
  <2>1. Cardinality(Sel \ Now) = Cardinality(Sel) - Cardinality(Sel \cap Now)
    BY <1>1, FS_Difference
  <2>2. Cardinality(Now \ Sel) = Cardinality(Now) - Cardinality(Now \cap Sel)
    BY <1>1, FS_Difference
  <2>3. Sel \cap Now = Now \cap Sel
    OBVIOUS
  <2> QED BY <1>1, <2>1, <2>2, <2>3
<1>4. ASSUME NEW p \in Sel \ Now, NEW q \in (Sel \ Outbound) \ (Sel \ Now),
             p \notin Outbound, p \in Top
      PROVE  q \in Top /\ score[p] <= score[q]
  <2>1. \A t \in peers : \E j \in 1 .. Size : arr[j] = t
    BY <1>2 DEF Arrays, Bijection, Surjection
  <2>2. PICK k \in 1 .. Size : arr[k] = p
    BY <1>1, <2>1
  <2>3. k \notin 1 .. D
    BY <2>2 DEF Now, FirstOf
  <2>4. PICK j \in 1 .. D : arr[j] = q
    BY DEF Now, FirstOf
  <2>5. j \in 1 .. Size /\ j < k
    BY <1>2, <2>3, Numbers
  <2>6. q \in Top /\ score[q] >= score[p]
    BY <1>2, <1>4, <2>2, <2>4, <2>5
  <2>7. score[p] \in Int /\ score[q] \in Int
    BY <1>1, <1>2, ScoreIsInt
  <2> QED BY <2>6, <2>7
<1> QED BY <1>3, <1>4

(* Sort, shuffle and rotations on the array choose one of the sets that     *)
(* RelayMesh lets the heartbeat choose from: the abstraction of the over-   *)
(* full branch there is sound.                                              *)
THEOREM SelectsAsRelayMesh == Spec => []SelectionAsInMesh
<1>1. ASSUME IInv, at = "done"
      PROVE  kept \in Mesh!KeptOf(peers)
  <2> DEFINE came == Now \ Sel
             gone == Sel \ Now
             outside == (peers \ Sel) \cap Outbound
             moved == IF Have < Dout THEN Mesh!Min({D - Have, Cardinality(outside)}) ELSE 0
  <2>1. /\ kept = Now /\ Now \subseteq peers /\ IsFiniteSet(Now)
        /\ IsFiniteSet(Sel) /\ Have \in 0 .. D /\ Selected
        /\ D \in Nat /\ Dout \in Nat /\ IsFiniteSet(peers)
    BY <1>1, KeptFacts, Numbers DEF IInv
  <2>2. Cardinality(gone) = Cardinality(came)
    BY <1>1, RotationsExchange
  <2>3. /\ gone \subseteq Sel \ Outbound /\ came \subseteq outside
        /\ Cardinality(came) = moved
    <3>1. CASE Have >= Dout /\ Now = Sel
      <4>1. came = {} /\ gone = {} /\ moved = 0
        BY <2>1, <3>1
      <4> QED BY <4>1, FS_EmptySet
    <3>2. CASE Exchanged /\ (ineed = 0 \/ peers \cap Outbound \subseteq Now)
      <4>1. /\ gone \subseteq Sel \ Outbound /\ came \subseteq outside
            /\ Have < Dout /\ ineed \in 0 .. D - Have
            /\ Cardinality(came) = (D - Have) - ineed
        BY <2>1, <3>2 DEF Exchanged
      <4>2. moved = Mesh!Min({D - Have, Cardinality(outside)})
        BY <4>1
      <4>3. IsFiniteSet(outside)
        BY <2>1, FS_Difference, FS_Intersection
      <4>4. /\ Cardinality(outside) \in Nat /\ Cardinality(came) <= Cardinality(outside)
        BY <4>1, <4>3, FS_CardinalityType, FS_Subset
      <4>5. D - Have \in Nat
        BY <2>1
      <4>6. ineed = 0 \/ came = outside
        BY <3>2, <4>1
      <4> HIDE DEF came, outside, moved
      <4>7. Mesh!Min({D - Have, Cardinality(outside)}) = Cardinality(came)
        BY <4>1, <4>4, <4>5, <4>6, HowManyMove
      <4> QED BY <4>1, <4>2, <4>7
    <3> QED BY <2>1, <3>1, <3>2 DEF Selected
  <2>4. \A p \in gone, q \in (Sel \ Outbound) \ gone :
           p \in Top => q \in Top /\ score[p] <= score[q]
    BY <1>1, <2>3, RotationsExchange
  <2>5. (Sel \ gone) \cup came \in Mesh!Rebalanced(peers, Top, Sel)
    BY <2>2, <2>3, <2>4, IsRebalanced DEF Have
  <2>6. (Sel \ gone) \cup came = kept
    BY <2>1
  <2>7. kept \in Mesh!Rebalanced(peers, Top, Top \cup (Sel \ Top))
    BY <1>1, <2>5, <2>6, SelectionBeforeRotations
  <2> HIDE DEF came, gone, outside, moved
  <2> DEFINE From(top) == UNION {Mesh!Rebalanced(peers, top, top \cup rest) :
                                    rest \in Mesh!kSubset(D - Dscore, peers \ top)}
  <2>8. Top \in Mesh!BestScored(peers) /\ Sel \ Top \in Mesh!kSubset(D - Dscore, peers \ Top)
    BY <1>1, SelectionBeforeRotations
  <2>9. kept \in From(Top)
    BY <2>7, <2>8
  <2>10. Mesh!KeptOf(peers) = UNION {From(top) : top \in Mesh!BestScored(peers)}
    BY DEF Mesh!KeptOf
  <2> HIDE DEF From
  <2> QED BY <2>8, <2>9, <2>10
<1>2. IInv => SelectionAsInMesh
  BY <1>1 DEF SelectionAsInMesh
<1> QED BY <1>2, SelectionInvariance, PTL

=============================================================================

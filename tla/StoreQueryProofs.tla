---------------------------- MODULE StoreQueryProofs ----------------------------
(***************************************************************************)
(* Theorems about StoreQuery, for every store, peer and page size: what a  *)
(* history query collects, in which order, and that it implements the      *)
(* abstract query of StoreHistory.                                         *)
(***************************************************************************)
EXTENDS StoreQuery, FiniteSetTheorems, SequenceTheorems, WellFoundedInduction, TLAPS

-----------------------------------------------------------------------------
(* Pages *)

(* j comes before i in the direction of the query. *)
Ahead(j, i) == IF dir = Forward THEN j < i ELSE j > i

LEMMA MinimalSet ==
    ASSUME NEW T, NEW F, F \subseteq FiniteSubsetsOf(T), F # {}
    PROVE  \E m \in F : \A b \in F : ~(b \subseteq m /\ b # m)
  <1>1. PICK m \in F : \A b \in F : ~(<<b, m>> \in StrictSubsetOrdering(T))
    BY WFMin, FS_StrictSubsetOrderingWellFounded
  <1> QED
    BY <1>1 DEF StrictSubsetOrdering, FiniteSubsetsOf

LEMMA Least ==
    ASSUME NEW T \in SUBSET Nat, IsFiniteSet(T), T # {}
    PROVE  \E x \in T : \A y \in T : x <= y
  <1> DEFINE Below == {{y \in T : y < x} : x \in T}
  <1>1. Below \subseteq FiniteSubsetsOf(T) /\ Below # {}
    <2>1. FiniteSubsetsOf(T) = SUBSET T
      BY FS_FiniteSubsetsOfFinite
    <2>2. \A b \in Below : b \subseteq T
      OBVIOUS
    <2>3. Below # {}
      OBVIOUS
    <2> HIDE DEF Below
    <2> QED
      BY <2>1, <2>2, <2>3
  <1>2. PICK m \in Below : \A b \in Below : ~(b \subseteq m /\ b # m)
    <2> HIDE DEF Below
    <2> QED
      BY <1>1, MinimalSet
  <1>3. PICK x \in T : m = {y \in T : y < x}
    BY <1>2
  <1>4. ASSUME NEW y \in T, y < x PROVE FALSE
    <2> DEFINE b == {z \in T : z < y}
    <2>1. b \in Below /\ y \in m /\ y \notin b
      BY <1>3, <1>4
    <2>2. \A z \in T : z < y => z < x
      <3>1. T \subseteq Nat
        OBVIOUS
      <3> QED
        BY <1>4, <3>1
    <2>3. b \subseteq m
      BY <1>3, <2>2
    <2> QED
      BY <1>2, <2>1, <2>3
  <1>5. \A y \in T : x \in Nat /\ y \in Nat /\ ~(y < x)
    BY <1>4
  <1> QED
    BY <1>5

LEMMA Greatest ==
    ASSUME NEW T \in SUBSET Nat, IsFiniteSet(T), T # {}
    PROVE  \E x \in T : \A y \in T : y <= x
  <1> DEFINE Above == {{y \in T : y > x} : x \in T}
  <1>1. Above \subseteq FiniteSubsetsOf(T) /\ Above # {}
    <2>1. FiniteSubsetsOf(T) = SUBSET T
      BY FS_FiniteSubsetsOfFinite
    <2>2. \A b \in Above : b \subseteq T
      OBVIOUS
    <2>3. Above # {}
      OBVIOUS
    <2> HIDE DEF Above
    <2> QED
      BY <2>1, <2>2, <2>3
  <1>2. PICK m \in Above : \A b \in Above : ~(b \subseteq m /\ b # m)
    <2> HIDE DEF Above
    <2> QED
      BY <1>1, MinimalSet
  <1>3. PICK x \in T : m = {y \in T : y > x}
    BY <1>2
  <1>4. ASSUME NEW y \in T, y > x PROVE FALSE
    <2> DEFINE b == {z \in T : z > y}
    <2>1. b \in Above /\ y \in m /\ y \notin b
      BY <1>3, <1>4
    <2>2. \A z \in T : z > y => z > x
      <3>1. T \subseteq Nat
        OBVIOUS
      <3> QED
        BY <1>4, <3>1
    <2>3. b \subseteq m
      BY <1>3, <2>2
    <2> QED
      BY <1>2, <2>1, <2>3
  <1>5. \A y \in T : x \in Nat /\ y \in Nat /\ ~(y > x)
    BY <1>4
  <1> QED
    BY <1>5

LEMMA FirstElement ==
    ASSUME NEW T \in SUBSET Nat, IsFiniteSet(T), T # {}
    PROVE  \E x \in T : \A y \in T : ~Ahead(y, x)
  <1>1. CASE dir = Forward
    <2>1. PICK x \in T : \A y \in T : x <= y
      BY Least
    <2>2. \A y \in T : ~(y < x)
      BY <2>1
    <2> QED
      BY <1>1, <2>2 DEF Ahead
  <1>2. CASE dir # Forward
    <2>1. PICK x \in T : \A y \in T : y <= x
      BY Greatest
    <2>2. \A y \in T : ~(y > x)
      BY <2>1
    <2> QED
      BY <1>2, <2>2 DEF Ahead
  <1> QED
    BY <1>1, <1>2

LEMMA LastElement ==
    ASSUME NEW T \in SUBSET Nat, IsFiniteSet(T), T # {}
    PROVE  EndOf(T) \in T /\ \A y \in T : ~Ahead(EndOf(T), y)
  <1>1. PICK x \in T : \A y \in T : x <= y
    BY Least
  <1>2. PICK z \in T : \A y \in T : y <= z
    BY Greatest
  <1>3. \E i \in T : \A j \in T : IF dir = Forward THEN j <= i ELSE j >= i
    BY <1>1, <1>2
  <1>4. EndOf(T) \in T /\ \A j \in T : IF dir = Forward THEN j <= EndOf(T) ELSE j >= EndOf(T)
    BY <1>3 DEF EndOf
  <1>5. EndOf(T) \in Nat /\ T \subseteq Nat
    BY <1>4
  <1>6. ASSUME NEW y \in T PROVE ~Ahead(EndOf(T), y)
    <2>1. IF dir = Forward THEN y <= EndOf(T) ELSE y >= EndOf(T)
      BY <1>4
    <2> QED
      BY <1>5, <2>1 DEF Ahead
  <1> QED
    BY <1>4, <1>6

(* The first n of a set: n of them or all, and with each those before it.   *)
LEMMA FirstOfFacts ==
    ASSUME NEW S \in SUBSET Nat, IsFiniteSet(S), S # {}, NEW n \in Nat \ {0}
    PROVE  /\ FirstOf(n, S) \subseteq S /\ FirstOf(n, S) # {} /\ IsFiniteSet(FirstOf(n, S))
           /\ Cardinality(FirstOf(n, S)) \in 1 .. n
           /\ \A i \in FirstOf(n, S), j \in S : Ahead(j, i) => j \in FirstOf(n, S)
           /\ Cardinality(FirstOf(n, S)) < n => FirstOf(n, S) = S
  <1> DEFINE T == FirstOf(n, S)
             Before(i) == {j \in S : Ahead(j, i)}
  <1>1. T = {i \in S : Cardinality(Before(i)) < n}
    BY DEF FirstOf, Ahead
  <1>2. \A i \in S : IsFiniteSet(Before(i)) /\ Cardinality(Before(i)) \in Nat
    BY FS_Subset, FS_CardinalityType
  <1>3. T \subseteq S /\ IsFiniteSet(T) /\ Cardinality(T) \in Nat
    BY <1>1, FS_Subset, FS_CardinalityType
  <1>8. \A i, j \in S : /\ i # j => Ahead(i, j) \/ Ahead(j, i)
                        /\ Ahead(j, i) => Before(j) \subseteq Before(i)
    <2>1. S \subseteq Nat
      OBVIOUS
    <2>2. ASSUME NEW i \in S, NEW j \in S, Ahead(j, i), NEW k \in Before(j) PROVE k \in Before(i)
      <3>1. i \in Nat /\ j \in Nat /\ k \in Nat /\ k \in S /\ Ahead(k, j)
        BY <2>1, <2>2
      <3>2. Ahead(k, i)
        BY <2>2, <3>1 DEF Ahead
      <3> QED
        BY <3>1, <3>2
    <2>3. ASSUME NEW i \in S, NEW j \in S, i # j PROVE Ahead(i, j) \/ Ahead(j, i)
      BY <2>1, <2>3 DEF Ahead
    <2> QED
      BY <2>2, <2>3
  <1> HIDE DEF T, Before
  <1>4. \A i \in T, j \in S : Ahead(j, i) => j \in T
    <2> SUFFICES ASSUME NEW i \in T, NEW j \in S, Ahead(j, i) PROVE j \in T
      OBVIOUS
    <2>1. Before(j) \subseteq Before(i)
      BY <1>3, <1>8
    <2>2. Cardinality(Before(j)) <= Cardinality(Before(i))
      BY <1>2, <1>3, <2>1, FS_Subset
    <2> QED
      BY <1>1, <1>2, <1>3, <2>2
  <1>5. T # {}
    <2>1. PICK x \in S : \A y \in S : ~Ahead(y, x)
      BY FirstElement
    <2>2. Before(x) = {}
      BY <2>1 DEF Before
    <2> QED
      BY <1>1, <2>2, FS_EmptySet
  <1>6. Cardinality(T) \in 1 .. n
    <2>1. PICK e \in T : \A y \in T : ~Ahead(e, y)
      BY <1>3, <1>5, LastElement
    <2>2. T \ {e} \subseteq Before(e)
      BY <1>3, <1>8, <2>1 DEF Before
    <2>3. Cardinality(T \ {e}) = Cardinality(T) - 1 /\ IsFiniteSet(T \ {e})
      BY <1>3, <2>1, FS_RemoveElement
    <2>4. Cardinality(T \ {e}) <= Cardinality(Before(e))
      BY <1>2, <1>3, <2>1, <2>2, FS_Subset
    <2>5. Cardinality(Before(e)) < n
      BY <1>1, <2>1
    <2>6. Cardinality(T) # 0
      BY <1>3, <1>5, FS_EmptySet
    <2> QED
      BY <1>2, <1>3, <2>1, <2>3, <2>4, <2>5, <2>6
  <1>7. ASSUME Cardinality(T) < n PROVE T = S
    <2> SUFFICES ASSUME S \ T # {} PROVE FALSE
      BY <1>3
    <2>1. PICK x \in S \ T : \A y \in S \ T : ~Ahead(y, x)
      <3>1. IsFiniteSet(S \ T)
        BY FS_Subset
      <3> QED
        BY <3>1, FirstElement
    <2>2. Before(x) \subseteq T
      BY <2>1 DEF Before
    <2>3. Cardinality(Before(x)) <= Cardinality(T)
      BY <1>3, <2>2, FS_Subset
    <2> QED
      BY <1>1, <1>2, <1>3, <1>7, <2>1, <2>3
  <1> QED
    BY <1>3, <1>4, <1>5, <1>6, <1>7 DEF T

(* What a reply leaves in page, and the last message f of it.               *)
LEMMA ReplyFacts ==
    ASSUME TypeOK, NEW informs \in BOOLEAN, ReplyPage(informs)
    PROVE  \E f \in page' :
             /\ page' \subseteq After(cursor)
             /\ \A i \in page' : ~Ahead(f, i)
             /\ \A i \in After(cursor) : ~Ahead(f, i) => i \in page'
             /\ Cardinality(page') \in 1 .. ServerMax
             /\ dir = Forward => \A i, j \in page' : i < j + ServerMax
             /\ pageInfo' = IF informs THEN [size |-> Cardinality(page'), cursor |-> f]
                                       ELSE [size |-> 0, cursor |-> NoCursor]
             /\ ~cut' => ~cut /\ informs /\ (Cardinality(page') < pageSize => page' = After(cursor))
  <1> DEFINE S == After(cursor)
             full == FirstOf(pageSize, S)
             sent == FirstOf(ServerMax, full)
  <1>1. /\ S # {} /\ page' = sent
        /\ pageInfo' = IF informs THEN [size |-> Cardinality(sent), cursor |-> EndOf(sent)]
                                  ELSE [size |-> 0, cursor |-> NoCursor]
        /\ cut' = (cut \/ sent # full \/ ~informs)
    BY DEF ReplyPage, CursorSent
  <1>2. S \in SUBSET Nat /\ IsFiniteSet(S)
    <2>1. oldest \in Nat /\ Len(log) \in Nat
      BY LenProperties DEF TypeOK
    <2>2. S \subseteq oldest .. Len(log)
      BY DEF After, Stored
    <2> HIDE DEF S
    <2>3. oldest .. Len(log) \subseteq Nat
      BY <2>1
    <2>4. IsFiniteSet(oldest .. Len(log))
      BY <2>1, FS_Interval
    <2> QED
      BY <2>2, <2>3, <2>4, FS_Subset
  <1>3. pageSize \in Nat \ {0} /\ ServerMax \in Nat \ {0}
    BY QueryAssumption DEF TypeOK
  <1>4. \A i, j, k \in Nat : Ahead(j, i) /\ Ahead(k, j) => Ahead(k, i)
    BY DEF Ahead
  <1>5. \A i, j \in Nat : i = j \/ Ahead(i, j) \/ Ahead(j, i)
    BY DEF Ahead
  <1>6. \A i, j \in S, k \in Nat : dir = Forward /\ j <= k /\ k < i => k \in S
    <2>1. oldest \in Nat /\ Len(log) \in Nat /\ cursor \in Nat
      BY LenProperties DEF TypeOK, NoCursor
    <2> QED
      BY <2>1 DEF After, Stored, NoCursor
  <1> HIDE DEF S
  <1>7. /\ full \subseteq S /\ full # {} /\ IsFiniteSet(full)
        /\ Cardinality(full) \in 1 .. pageSize
        /\ \A i \in full, j \in S : Ahead(j, i) => j \in full
        /\ Cardinality(full) < pageSize => full = S
    BY <1>1, <1>2, <1>3, FirstOfFacts
  <1> HIDE DEF full
  <1>8. /\ sent \subseteq full /\ sent # {} /\ IsFiniteSet(sent)
        /\ Cardinality(sent) \in 1 .. ServerMax
        /\ \A i \in sent, j \in full : Ahead(j, i) => j \in sent
    <2>1. full \in SUBSET Nat
      BY <1>2, <1>7
    <2> QED
      BY <1>3, <1>7, <2>1, FirstOfFacts
  <1>9. ASSUME dir = Forward, NEW i \in sent, NEW j \in sent PROVE i < j + ServerMax
    <2>1. i \in Nat /\ j \in Nat /\ i \in full /\ j \in full /\ i \in S /\ j \in S
      BY <1>2, <1>7, <1>8
    <2>2. CASE i <= j
      BY <1>3, <2>1, <2>2
    <2>3. CASE j < i
      <3> DEFINE Before == {k \in full : k < i}
      <3>1. j .. (i - 1) \subseteq Before
        <4> SUFFICES ASSUME NEW k \in j .. (i - 1) PROVE k \in full /\ k < i
          OBVIOUS
        <4>1. k \in Nat /\ j <= k /\ k < i
          BY <2>1
        <4>2. k \in S
          BY <1>6, <1>9, <2>1, <4>1
        <4>3. Ahead(k, i)
          BY <1>9, <4>1 DEF Ahead
        <4> QED
          BY <1>7, <2>1, <4>1, <4>2, <4>3
      <3>2. IsFiniteSet(Before) /\ Cardinality(Before) \in Nat
        BY <1>7, FS_Subset, FS_CardinalityType
      <3>3. Cardinality(Before) < ServerMax
        BY <1>9 DEF FirstOf
      <3> HIDE DEF Before
      <3>4. Cardinality(j .. (i - 1)) <= Cardinality(Before)
        BY <3>1, <3>2, FS_Subset
      <3>5. Cardinality(j .. (i - 1)) = i - j
        BY <2>1, <2>3, FS_Interval
      <3> QED
        BY <1>3, <2>1, <3>2, <3>3, <3>4, <3>5
    <2> QED
      BY <2>1, <2>2, <2>3
  <1> HIDE DEF sent
  <1> DEFINE f == EndOf(sent)
  <1>10. f \in sent /\ \A i \in sent : ~Ahead(f, i)
    <2>1. sent \in SUBSET Nat
      BY <1>2, <1>7, <1>8
    <2> QED
      BY <1>8, <2>1, LastElement
  <1> HIDE DEF f
  <1>11. ASSUME NEW i \in S, ~Ahead(f, i) PROVE i \in sent
    <2>1. i \in Nat /\ f \in Nat /\ f \in full
      BY <1>2, <1>7, <1>8, <1>10
    <2> QED
      BY <1>5, <1>7, <1>8, <1>10, <1>11, <2>1
  <1>12. ASSUME ~cut' PROVE ~cut /\ informs /\ (Cardinality(sent) < pageSize => sent = S)
    BY <1>1, <1>7, <1>12
  <1>13. f \in page'
    BY <1>1, <1>10
  <1>14. page' \subseteq S
    BY <1>1, <1>7, <1>8
  <1>15. pageInfo' = IF informs THEN [size |-> Cardinality(page'), cursor |-> f]
                               ELSE [size |-> 0, cursor |-> NoCursor]
    BY <1>1 DEF f
  <1> QED
    BY <1>1, <1>8, <1>9, <1>10, <1>11, <1>12, <1>13, <1>14, <1>15 DEF S

-----------------------------------------------------------------------------
(* The inductive invariant *)

(* The query has still to pass i when it has come to c. *)
Past(c, i) == c = NoCursor \/ Ahead(c, i)

IsReadable(i) == log[i] \in {Clear, Mine}

(* What may not be missing: stored when the query began, still stored.      *)
Owed == {i \in DOMAIN log : i >= oldest /\ i <= asked /\ IsReadable(i)}

Taken == page \cup ToSet(pageMessages)

Open == status \in {"asking", "decoding"}

Sequences == {messages, delivered, pageMessages} \subseteq Seq(Nat)

(* The messages collected are those delivered, and then those of the page.  *)
Collected ==
    /\ status \in {"idle", "asking", "returned"} => messages = delivered
    /\ status = "decoding" => messages = delivered \o pageMessages
    /\ status = "thrown" => messages \in {delivered, delivered \o pageMessages}
    /\ status = "idle" => delivered = <<>> /\ cursor = NoCursor

(* What was delivered lies before the cursor, and is all that is owed there.*)
UpToCursor ==
    Open => /\ \A i \in ToSet(delivered) : ~Past(cursor, i)
            /\ \A i \in Owed : ~Past(cursor, i) => i \in ToSet(delivered)

(* The page lies between the cursor and f, and is all that is owed there;   *)
(* it is the last one unless an answer was cut short.                       *)
PageTo(f) ==
    /\ Past(cursor, f)
    /\ \A i \in Taken : Past(cursor, i) /\ ~Past(f, i)
    /\ \A i \in Owed : Past(cursor, i) /\ ~Past(f, i) => i \in Taken
    /\ pageInfo.cursor = f \/ (pageInfo.cursor = NoCursor /\ cut)
    /\ LastPage /\ ~cut => \A i \in Owed : ~Past(f, i)

PageInHand ==
    status = "decoding" =>
        /\ \A i \in ToSet(pageMessages) : IsReadable(i)
        /\ \E f \in DOMAIN log : PageTo(f)

(* No message is taken twice, within a page as well. *)
TakenOnce ==
    /\ NoDuplicates
    /\ status = "decoding" => page \cap ToSet(pageMessages) = {}

(* Within a page, clear messages are decoded in order and before others,    *)
(* and a page spans less than ServerMax messages.                           *)
PageOrder ==
    status = "decoding" =>
        /\ \A i \in ToSet(pageMessages), j \in page : log[j] = Clear => log[i] = Clear /\ i < j
        /\ dir = Forward => \A i, j \in Taken : i < j + ServerMax

Types == TypeOK /\ Sequences
Content == Collected /\ UpToCursor /\ PageInHand
Order == TakenOnce /\ PageOrder /\ ForwardOrder
IInv == Types /\ Content /\ Order

(* Sequences of messages *)

LEMMA ToSetEmpty == ToSet(<<>>) = {}
  BY DEF ToSet

LEMMA AppendFacts ==
    ASSUME NEW s \in Seq(Nat), NEW x \in Nat
    PROVE  /\ Append(s, x) \in Seq(Nat)
           /\ Len(Append(s, x)) = Len(s) + 1
           /\ ToSet(Append(s, x)) = ToSet(s) \cup {x}
           /\ \A i \in 1 .. Len(s) : Append(s, x)[i] = s[i] /\ s[i] \in ToSet(s)
           /\ Append(s, x)[Len(s) + 1] = x
           /\ x \notin ToSet(s) /\ IsInjective(s) => IsInjective(Append(s, x))
  <1>1. /\ Append(s, x) \in Seq(Nat) /\ Len(s) \in Nat
        /\ Len(Append(s, x)) = Len(s) + 1
        /\ \A i \in 1 .. Len(s) : Append(s, x)[i] = s[i]
        /\ Append(s, x)[Len(s) + 1] = x
        /\ DOMAIN s = 1 .. Len(s) /\ DOMAIN Append(s, x) = 1 .. Len(s) + 1
    BY LenProperties
  <1>2. ToSet(Append(s, x)) = ToSet(s) \cup {x}
    <2>1. ASSUME NEW i \in 1 .. Len(s) + 1 PROVE Append(s, x)[i] \in ToSet(s) \cup {x}
      <3>1. i \in 1 .. Len(s) \/ i = Len(s) + 1
        BY <1>1
      <3> QED
        BY <1>1, <3>1 DEF ToSet
    <2>2. ASSUME NEW i \in 1 .. Len(s) PROVE s[i] \in ToSet(Append(s, x))
      <3>1. i \in 1 .. Len(s) + 1
        BY <1>1
      <3> QED
        BY <1>1, <3>1 DEF ToSet
    <2>3. Len(s) + 1 \in 1 .. Len(s) + 1
      BY <1>1
    <2>4. x \in ToSet(Append(s, x))
      BY <1>1, <2>3 DEF ToSet
    <2> QED
      BY <1>1, <2>1, <2>2, <2>4 DEF ToSet
  <1>3. \A i \in 1 .. Len(s) : s[i] \in ToSet(s)
    BY <1>1 DEF ToSet
  <1>4. ASSUME x \notin ToSet(s), IsInjective(s) PROVE IsInjective(Append(s, x))
    <2> SUFFICES ASSUME NEW a \in 1 .. Len(s) + 1, NEW b \in 1 .. Len(s) + 1,
                        Append(s, x)[a] = Append(s, x)[b]
                 PROVE  a = b
      BY <1>1 DEF IsInjective
    <2>1. a \in 1 .. Len(s) \/ a = Len(s) + 1
      BY <1>1
    <2>2. b \in 1 .. Len(s) \/ b = Len(s) + 1
      BY <1>1
    <2> QED
      BY <1>1, <1>3, <1>4, <2>1, <2>2 DEF IsInjective
  <1> QED
    BY <1>1, <1>2, <1>3, <1>4

LEMMA ConcatFacts ==
    ASSUME NEW s \in Seq(Nat), NEW t \in Seq(Nat)
    PROVE  /\ s \o t \in Seq(Nat)
           /\ ToSet(s \o t) = ToSet(s) \cup ToSet(t)
           /\ \A x \in Nat : Append(s \o t, x) = s \o Append(t, x)
           /\ IsPrefix(s, s \o t) /\ IsPrefix(s, s)
  <1> DEFINE u == s \o t
  <1>1. /\ u \in Seq(Nat) /\ Len(s) \in Nat /\ Len(t) \in Nat /\ Len(u) = Len(s) + Len(t)
        /\ \A i \in 1 .. Len(s) + Len(t) : u[i] = IF i <= Len(s) THEN s[i] ELSE t[i - Len(s)]
        /\ DOMAIN s = 1 .. Len(s) /\ DOMAIN t = 1 .. Len(t) /\ DOMAIN u = 1 .. Len(u)
    BY ConcatProperties, LenProperties
  <1> HIDE DEF u
  <1>2. ASSUME NEW i \in 1 .. Len(s) PROVE i \in 1 .. Len(u) /\ u[i] = s[i]
    <2>1. i \in 1 .. Len(s) + Len(t) /\ i <= Len(s)
      BY <1>1
    <2> QED
      BY <1>1, <2>1
  <1>3. ASSUME NEW i \in 1 .. Len(t) PROVE Len(s) + i \in 1 .. Len(u) /\ u[Len(s) + i] = t[i]
    <2>1. Len(s) + i \in 1 .. Len(s) + Len(t) /\ ~(Len(s) + i <= Len(s)) /\ Len(s) + i - Len(s) = i
      BY <1>1
    <2> QED
      BY <1>1, <2>1
  <1>4. ASSUME NEW i \in 1 .. Len(u)
        PROVE  i \in 1 .. Len(s) \/ \E j \in 1 .. Len(t) : i = Len(s) + j
    <2>1. CASE i <= Len(s)
      BY <1>1, <2>1
    <2>2. CASE ~(i <= Len(s))
      <3>1. i - Len(s) \in 1 .. Len(t) /\ i = Len(s) + (i - Len(s))
        BY <1>1, <2>2
      <3> QED
        BY <3>1
    <2> QED
      BY <2>1, <2>2
  <1>5. ToSet(u) = ToSet(s) \cup ToSet(t)
    <2>1. ToSet(u) = {u[i] : i \in 1 .. Len(u)}
      BY <1>1 DEF ToSet
    <2>2. ToSet(s) = {s[i] : i \in 1 .. Len(s)}
      BY <1>1 DEF ToSet
    <2>3. ToSet(t) = {t[i] : i \in 1 .. Len(t)}
      BY <1>1 DEF ToSet
    <2>4. ASSUME NEW i \in 1 .. Len(u) PROVE u[i] \in ToSet(s) \cup ToSet(t)
      <3>1. CASE i \in 1 .. Len(s)
        BY <1>2, <2>2, <3>1
      <3>2. CASE \E j \in 1 .. Len(t) : i = Len(s) + j
        <4>1. PICK j \in 1 .. Len(t) : i = Len(s) + j
          BY <3>2
        <4>2. u[i] = t[j]
          BY <1>3, <4>1
        <4> QED
          BY <2>3, <4>2
      <3> QED
        BY <1>4, <3>1, <3>2
    <2>5. \A i \in 1 .. Len(s) : s[i] \in ToSet(u)
      BY <1>2, <2>1
    <2>6. \A i \in 1 .. Len(t) : t[i] \in ToSet(u)
      BY <1>3, <2>1
    <2> QED
      BY <2>1, <2>2, <2>3, <2>4, <2>5, <2>6
  <1>6. ASSUME NEW x \in Nat PROVE Append(u, x) = s \o Append(t, x)
    <2>1. <<x>> \in Seq(Nat)
      OBVIOUS
    <2>2. Append(u, x) = u \o <<x>>
      BY <1>1, AppendIsConcat
    <2>3. Append(t, x) = t \o <<x>>
      BY AppendIsConcat
    <2>4. u \o <<x>> = s \o (t \o <<x>>)
      <3> DEFINE v == <<x>>
      <3>1. v \in Seq(Nat)
        BY <2>1
      <3> HIDE DEF v
      <3>2. (s \o t) \o v = s \o (t \o v)
        BY <3>1, ConcatAssociative
      <3> QED
        BY <3>2 DEF u, v
    <2> QED
      BY <2>2, <2>3, <2>4
  <1>7. SubSeq(s, 1, Len(s)) = s
    BY SubSeqFull
  <1>8. IsPrefix(s, s)
    BY <1>1, <1>7 DEF IsPrefix
  <1>9. SubSeq(u, 1, Len(s)) = s
    BY <1>1, ConcatProperties, LenProperties, SubSeqOfConcat1, SubSeqFull DEF u
  <1>10. IsPrefix(s, u)
    BY <1>1, <1>7, <1>9 DEF IsPrefix
  <1> QED
    BY <1>1, <1>5, <1>6, <1>8, <1>10 DEF u

-----------------------------------------------------------------------------
(* Types *)

LEMMA InitTypes == Init => Types
  <1> SUFFICES ASSUME Init PROVE Types
    OBVIOUS
  <1>1. pageSize \in PageSizes
    BY QueryAssumption DEF Init
  <1>2. log \in Seq(Kind) /\ Len(log) = 0 /\ DOMAIN log = {}
    BY DEF Init
  <1>3. Sequences
    BY EmptySeq DEF Init, Sequences
  <1>4. /\ registered \subseteq known /\ known \subseteq Peer /\ connected \subseteq known
        /\ oldest \in 1 .. Len(log) + 1 /\ asked \in 0 .. Len(log) /\ Len(log) <= MaxMessages
        /\ status = "idle" /\ server = AnyPeer
        /\ dir \in {Forward, Backward} /\ cursor = NoCursor /\ page \subseteq DOMAIN log
    BY <1>2, QueryAssumption DEF Init, NoCursor
  <1>8. cut \in BOOLEAN /\ alive \in BOOLEAN
    BY DEF Init
  <1>5. pageInfo \in [size : 0 .. ServerMax, cursor : {NoCursor} \cup DOMAIN log]
    BY QueryAssumption DEF Init
  <1>6. \A seq \in {pageMessages, messages, delivered} : ToSet(seq) \subseteq DOMAIN log
    BY ToSetEmpty DEF Init
  <1>7. TypeOK
    BY <1>1, <1>2, <1>4, <1>5, <1>6, <1>8 DEF TypeOK
  <1> QED
    BY <1>3, <1>7 DEF Types

LEMMA LogFacts ==
    ASSUME TypeOK
    PROVE  /\ Len(log) \in Nat /\ DOMAIN log = 1 .. Len(log)
           /\ \A i \in DOMAIN log : i \in Nat /\ i # NoCursor
           /\ oldest \in Nat \ {0} /\ Stored \subseteq DOMAIN log
           /\ cursor \in Nat
           /\ page \subseteq Nat
  <1>1. Len(log) \in Nat /\ DOMAIN log = 1 .. Len(log)
    BY LenProperties DEF TypeOK
  <1> QED
    BY <1>1 DEF TypeOK, NoCursor, Stored

LEMMA StepTypes == Types /\ [Next]_vars => Types'
  <1> SUFFICES ASSUME TypeOK, Sequences, [Next]_vars PROVE TypeOK' /\ Sequences'
    BY DEF Types
  <1>1. CASE UNCHANGED vars
    BY <1>1 DEF vars, network, store, options, collected, TypeOK, Sequences
  <1>2. ASSUME NEW target \in Peer \cup {AnyPeer}, Query(target) PROVE TypeOK' /\ Sequences'
    <2>1. Candidates(target) \subseteq Peer
      BY DEF Candidates, TypeOK
    <2>2. asked' \in 0 .. Len(log)
      BY <1>2, LogFacts DEF Query
    <2>3. /\ server' \in Peer \cup {AnyPeer} /\ alive' \in BOOLEAN
          /\ status' \in {"thrown", "asking"}
      <3>1. CASE status' = "thrown" /\ UNCHANGED <<server, alive>>
        BY <3>1 DEF TypeOK
      <3>2. ASSUME NEW p \in Candidates(target), server' = p, alive' = (p \in connected),
                   status' = IF p \in connected THEN "asking" ELSE "thrown"
            PROVE  /\ server' \in Peer \cup {AnyPeer} /\ alive' \in BOOLEAN
                   /\ status' \in {"thrown", "asking"}
        <4>1. alive' \in BOOLEAN
          BY <3>2
        <4> QED
          BY <2>1, <3>2, <4>1
      <3> QED
        BY <1>2, <3>1, <3>2 DEF Query
    <2>4. /\ dir' \in {Forward, Backward} /\ pageSize' \in PageSizes
          /\ UNCHANGED <<network, store, cursor, pageInfo, page, collected, cut>>
      BY <1>2 DEF Query
    <2> QED
      BY <2>2, <2>3, <2>4 DEF TypeOK, Sequences, network, store, collected, Done
  <1>3. CASE Reject
    BY <1>3 DEF Reject, TypeOK, Sequences, network, store, options, collected, Done
  <1>4. CASE RejectCursor
    BY <1>4 DEF RejectCursor, TypeOK, Sequences, network, store, options, collected, Done
  <1>5. CASE ReplyEmpty
    BY <1>5 DEF ReplyEmpty, OnEmpty, TypeOK, Sequences, network, store, options, collected, Done
  <1>6. ASSUME NEW informs \in BOOLEAN, ReplyPage(informs) PROVE TypeOK' /\ Sequences'
    <2>1. PICK f \in page' :
             /\ page' \subseteq After(cursor)
             /\ Cardinality(page') \in 1 .. ServerMax
             /\ pageInfo' = IF informs THEN [size |-> Cardinality(page'), cursor |-> f]
                                       ELSE [size |-> 0, cursor |-> NoCursor]
      BY <1>6, ReplyFacts
    <2>2. page' \subseteq DOMAIN log
      BY <2>1, LogFacts DEF After
    <2>3. pageInfo' \in [size : 0 .. ServerMax, cursor : {NoCursor} \cup DOMAIN log]
      <3>1. Cardinality(page') \in 0 .. ServerMax /\ 0 \in 0 .. ServerMax /\ f \in DOMAIN log
        BY <2>1, <2>2, QueryAssumption
      <3> QED
        BY <2>1, <3>1
    <2>4. cut' \in BOOLEAN /\ status' = "decoding" /\ pageMessages' = <<>>
      BY <1>6 DEF ReplyPage, NewPage
    <2>5. UNCHANGED <<network, store, options, alive, cursor, messages, delivered>>
      BY <1>6 DEF ReplyPage
    <2>6. ToSet(pageMessages') = {} /\ pageMessages' \in Seq(Nat)
      BY <2>4, ToSetEmpty, EmptySeq
    <2>7. Sequences'
      BY <2>5, <2>6 DEF Sequences
    <2> QED
      BY <2>2, <2>3, <2>4, <2>5, <2>6, <2>7 DEF TypeOK, network, store, options
  <1>7. ASSUME NEW i \in page, Decode(i) PROVE TypeOK' /\ Sequences'
    <2>1. i \in DOMAIN log /\ i \in Nat
      BY LogFacts DEF TypeOK
    <2>2. /\ messages' \in Seq(Nat) /\ pageMessages' \in Seq(Nat)
          /\ ToSet(messages') \subseteq DOMAIN log /\ ToSet(pageMessages') \subseteq DOMAIN log
      <3>1. /\ messages \in Seq(Nat) /\ pageMessages \in Seq(Nat)
            /\ ToSet(messages) \subseteq DOMAIN log /\ ToSet(pageMessages) \subseteq DOMAIN log
        BY DEF TypeOK, Sequences
      <3>2. CASE log[i] \in {Clear, Mine}
        <4>1. messages' = Append(messages, i) /\ pageMessages' = Append(pageMessages, i)
          BY <1>7, <3>2 DEF Decode
        <4> QED
          BY <2>1, <3>1, <4>1, AppendFacts
      <3>3. CASE log[i] \notin {Clear, Mine}
        BY <1>7, <3>1, <3>3 DEF Decode
      <3> QED
        BY <3>2, <3>3
    <2>3. /\ page' \subseteq DOMAIN log /\ status' \in {"decoding", "thrown"}
          /\ UNCHANGED <<network, store, options, alive, cursor, pageInfo, delivered, cut>>
      BY <1>7 DEF Decode, TypeOK
    <2>4. Sequences'
      BY <2>2, <2>3 DEF Sequences
    <2> QED
      BY <2>2, <2>3, <2>4 DEF TypeOK, network, store, options, Done
  <1>8. ASSUME NEW callbackThrows \in BOOLEAN, FinishPage(callbackThrows) PROVE TypeOK' /\ Sequences'
    <2>1. delivered' \in Seq(Nat) /\ ToSet(delivered') \subseteq DOMAIN log
      BY <1>8, ConcatFacts DEF FinishPage, TypeOK, Sequences
    <2>2. /\ cursor' \in {NoCursor} \cup DOMAIN log /\ status' \in {"asking", "returned", "thrown"}
          /\ UNCHANGED <<network, store, options, alive, pageInfo, page, pageMessages, messages, cut>>
      BY <1>8 DEF FinishPage, NextCursor, TypeOK
    <2>3. Sequences'
      BY <2>1, <2>2 DEF Sequences
    <2> QED
      BY <2>1, <2>2, <2>3 DEF TypeOK, network, store, options, Done
  <1>9. ASSUME NEW k \in Kind, StoreMessage(k) PROVE TypeOK' /\ Sequences'
    <2>1. /\ log' \in Seq(Kind) /\ Len(log') = Len(log) + 1 /\ DOMAIN log' = 1 .. Len(log) + 1
      BY <1>9, LenProperties, AppendProperties DEF StoreMessage, TypeOK
    <2>2. DOMAIN log \subseteq DOMAIN log' /\ 1 .. Len(log) + 1 \subseteq 1 .. Len(log') + 1
          /\ 0 .. Len(log) \subseteq 0 .. Len(log') /\ Len(log') <= MaxMessages
      BY <1>9, <2>1, LogFacts, QueryAssumption DEF StoreMessage
    <2>3. UNCHANGED <<network, oldest, status, options, alive, cursor, pageInfo, page, collected, cut>>
      BY <1>9 DEF StoreMessage
    <2>4. pageInfo' \in [size : 0 .. ServerMax, cursor : {NoCursor} \cup DOMAIN log']
      BY <2>2, <2>3 DEF TypeOK
    <2>5. Sequences'
      BY <2>3 DEF Sequences, collected
    <2>6. \A seq \in {pageMessages', messages', delivered'} : ToSet(seq) \subseteq DOMAIN log'
      BY <2>2, <2>3 DEF TypeOK, collected
    <2> QED
      BY <2>1, <2>2, <2>3, <2>4, <2>5, <2>6 DEF TypeOK, network, options
  <1>10. CASE Prune
    BY <1>10, LogFacts DEF Prune, TypeOK, Sequences, network, options, collected
  <1>11. ASSUME NEW p \in Peer, Discover(p) \/ Connect(p) \/ Identify(p) \/ Disconnect(p)
         PROVE  TypeOK' /\ Sequences'
    <2>1. /\ registered' \subseteq known' /\ known' \subseteq Peer /\ connected' \subseteq known'
          /\ alive' \in BOOLEAN
      BY <1>11 DEF Discover, Connect, Identify, Disconnect, TypeOK
    <2>2. UNCHANGED <<store, status, options, cursor, pageInfo, page, collected, cut>>
      BY <1>11 DEF Discover, Connect, Identify, Disconnect
    <2> QED
      BY <2>1, <2>2 DEF TypeOK, Sequences, store, options, collected
  <1> QED
    BY <1>1, <1>2, <1>3, <1>4, <1>5, <1>6, <1>7, <1>8, <1>9, <1>10, <1>11
    DEF Next, Answer, DecodeSome, Finish

-----------------------------------------------------------------------------
(* Every step keeps Content and Order *)

LEMMA InitIInv == Init => IInv
  <1> SUFFICES ASSUME Init PROVE IInv
    OBVIOUS
  <1>1. Types
    BY InitTypes
  <1>2. /\ messages = <<>> /\ delivered = <<>> /\ status = "idle" /\ cursor = NoCursor
    BY DEF Init, NoCursor
  <1>3. Content
    BY <1>2 DEF Content, Collected, UpToCursor, Open, PageInHand
  <1>4. DOMAIN messages = {}
    BY <1>2
  <1>5. Order
    BY <1>2, <1>4 DEF Order, TakenOnce, NoDuplicates, IsInjective, PageOrder, ForwardOrder
  <1> QED
    BY <1>1, <1>3, <1>5 DEF IInv

(* Steps of the network, and answers that end the query. *)
Frame ==
    /\ UNCHANGED <<log, oldest, dir, pageSize, asked, cursor, pageInfo, page,
                   pageMessages, messages, delivered, cut>>
    /\ status' = status \/ (status = "asking" /\ status' \in {"returned", "thrown"})

LEMMA FrameStep ==
    ASSUME IInv, Frame
    PROVE  Content' /\ Order'
  <1>1. Owed' = Owed /\ Taken' = Taken /\ LastPage' = LastPage
    BY DEF Frame, Owed, Taken, LastPage, IsReadable
  <1>2. \A c, i : (Past(c, i))' = Past(c, i)
    BY DEF Frame, Past, Ahead
  <1>3. Collected'
    BY DEF Frame, IInv, Content, Collected
  <1>4. UpToCursor'
    BY <1>1, <1>2 DEF Frame, IInv, Content, UpToCursor, Open
  <1>5. PageInHand'
    BY <1>1, <1>2 DEF Frame, IInv, Content, PageInHand, PageTo, IsReadable
  <1>6. TakenOnce' /\ PageOrder' /\ ForwardOrder'
    BY <1>1 DEF Frame, IInv, Order, TakenOnce, NoDuplicates, IsInjective, PageOrder, ForwardOrder
  <1> QED
    BY <1>3, <1>4, <1>5, <1>6 DEF Frame, Content, Order

(* The store grows at one end and shrinks at the other: what was owed is    *)
(* owed no more at worst.                                                   *)
LEMMA StoreStep ==
    ASSUME IInv, Prune \/ \E k \in Kind : StoreMessage(k)
    PROVE  Content' /\ Order'
  <1>1. UNCHANGED <<dir, pageSize, asked, status, cursor, pageInfo, page,
                    pageMessages, messages, delivered, cut>>
    BY DEF Prune, StoreMessage, options, collected
  <1>2. TypeOK
    BY DEF IInv, Types
  <1>3. \A i \in DOMAIN log : i \in DOMAIN log' /\ log'[i] = log[i]
    <2>1. CASE Prune
      BY <2>1 DEF Prune
    <2>2. ASSUME NEW k \in Kind, StoreMessage(k) PROVE \A i \in DOMAIN log : i \in DOMAIN log' /\ log'[i] = log[i]
      BY <1>2, <2>2, LogFacts, LenProperties, AppendProperties DEF StoreMessage, TypeOK
    <2> QED
      BY <2>1, <2>2
  <1>4. oldest <= oldest' /\ oldest \in Nat /\ oldest' \in Nat
    BY <1>2, LogFacts DEF Prune, StoreMessage
  <1>5. Owed' \subseteq Owed
    <2> SUFFICES ASSUME NEW i \in Owed' PROVE i \in Owed
      OBVIOUS
    <2>1. i \in DOMAIN log' /\ i >= oldest' /\ i <= asked /\ log'[i] \in {Clear, Mine}
      BY <1>1 DEF Owed, IsReadable
    <2>2. i \in Nat \ {0}
      <3>1. log' \in Seq(Kind)
        BY StepTypes DEF IInv, Types, TypeOK, Next
      <3> QED
        BY <2>1, <3>1, LenProperties
    <2>3. i >= oldest
      BY <1>4, <2>1, <2>2
    <2>4. i \in DOMAIN log
      BY <1>2, <2>1, <2>2, LogFacts DEF TypeOK
    <2> QED
      BY <1>3, <2>1, <2>3, <2>4 DEF Owed, IsReadable
  <1>6. \A c, i : (Past(c, i))' = Past(c, i)
    BY <1>1 DEF Past, Ahead
  <1>7. Taken' = Taken /\ LastPage' = LastPage /\ Taken \subseteq DOMAIN log
        /\ ToSet(messages) \subseteq DOMAIN log
    BY <1>1, <1>2 DEF Taken, LastPage, TypeOK
  <1>8. Collected'
    BY <1>1 DEF IInv, Content, Collected
  <1>9. UpToCursor'
    BY <1>1, <1>5, <1>6 DEF IInv, Content, UpToCursor, Open
  <1>10. PageInHand'
    <2> SUFFICES ASSUME status = "decoding" PROVE PageInHand'
      BY <1>1 DEF PageInHand
    <2>1. PICK f \in DOMAIN log : PageTo(f)
      BY DEF IInv, Content, PageInHand
    <2>2. (PageTo(f))'
      BY <1>1, <1>5, <1>6, <1>7, <2>1 DEF PageTo
    <2>3. \A i \in ToSet(pageMessages) : (IsReadable(i))'
      BY <1>3, <1>7 DEF IInv, Content, PageInHand, IsReadable, Taken
    <2> QED
      BY <1>1, <1>3, <2>2, <2>3 DEF PageInHand
  <1>11. TakenOnce'
    BY <1>1 DEF IInv, Order, TakenOnce, NoDuplicates, IsInjective
  <1>12. PageOrder'
    BY <1>1, <1>3, <1>7 DEF IInv, Order, PageOrder, Taken
  <1>13. ForwardOrder'
    <2>1. \A n \in DOMAIN messages : messages[n] \in DOMAIN log
      BY <1>7 DEF ToSet
    <2> QED
      BY <1>1, <1>3, <2>1 DEF IInv, Order, ForwardOrder
  <1> QED
    BY <1>8, <1>9, <1>10, <1>11, <1>12, <1>13 DEF Content, Order

LEMMA QueryStep ==
    ASSUME IInv, NEW target \in Peer \cup {AnyPeer}, Query(target)
    PROVE  Content' /\ Order'
  <1>1. /\ status' \in {"asking", "thrown"} /\ status = "idle"
        /\ UNCHANGED <<cursor, messages, delivered>>
    BY DEF Query, collected
  <1>2. messages' = <<>> /\ delivered' = <<>> /\ cursor' = NoCursor
    BY <1>1 DEF IInv, Content, Collected
  <1>3. DOMAIN messages' = {} /\ ToSet(delivered') = {}
    BY <1>2, ToSetEmpty
  <1>4. Content'
    BY <1>1, <1>2, <1>3 DEF Content, Collected, UpToCursor, PageInHand, Past
  <1>5. Order'
    BY <1>1, <1>3 DEF Order, TakenOnce, NoDuplicates, IsInjective, PageOrder, ForwardOrder
  <1> QED
    BY <1>4, <1>5

LEMMA PastFacts ==
    ASSUME TypeOK
    PROVE  /\ \A i : i \in After(cursor) <=> i \in Stored /\ Past(cursor, i)
           /\ \A f, i \in DOMAIN log : Past(cursor, f) /\ ~Past(cursor, i) => ~Past(f, i)
           /\ \A f, i \in DOMAIN log : Past(f, i) <=> Ahead(f, i)
  <1>1. /\ cursor \in Nat /\ \A i \in DOMAIN log : i \in Nat /\ i # NoCursor
        /\ Stored \subseteq DOMAIN log
    BY LogFacts
  <1>2. \A i \in Nat : Ahead(cursor, i) <=> IF dir = Forward THEN i > cursor ELSE i < cursor
    BY <1>1 DEF Ahead
  <1>3. \A f, i \in Nat : Ahead(cursor, f) /\ ~Ahead(cursor, i) => ~Ahead(f, i)
    BY <1>1 DEF Ahead
  <1>4. \A i \in Stored : i \in Nat
    BY <1>1
  <1>5. ASSUME NEW i PROVE i \in After(cursor) <=> i \in Stored /\ Past(cursor, i)
    BY <1>2, <1>4 DEF After, Past
  <1> QED
    BY <1>1, <1>3, <1>5 DEF Past

LEMMA ReplyStep ==
    ASSUME IInv, NEW informs \in BOOLEAN, ReplyPage(informs)
    PROVE  Content' /\ Order'
  <1>1. TypeOK /\ status = "asking" /\ status' = "decoding" /\ pageMessages' = <<>>
    BY DEF IInv, Types, ReplyPage, NewPage
  <1>2. UNCHANGED <<log, oldest, dir, pageSize, asked, cursor, messages, delivered>>
    BY DEF ReplyPage, store, options
  <1>3. PICK f \in page' :
             /\ page' \subseteq After(cursor)
             /\ \A i \in page' : ~Ahead(f, i)
             /\ \A i \in After(cursor) : ~Ahead(f, i) => i \in page'
             /\ Cardinality(page') \in 1 .. ServerMax
             /\ dir = Forward => \A i, j \in page' : i < j + ServerMax
             /\ pageInfo' = IF informs THEN [size |-> Cardinality(page'), cursor |-> f]
                                       ELSE [size |-> 0, cursor |-> NoCursor]
             /\ ~cut' => ~cut /\ informs /\ (Cardinality(page') < pageSize => page' = After(cursor))
    BY <1>1, ReplyFacts
  <1>4. messages = delivered
    BY <1>1 DEF IInv, Content, Collected
  <1>5. ToSet(pageMessages') = {} /\ Taken' = page'
    BY <1>1, ToSetEmpty DEF Taken
  <1>6. /\ \A i : i \in After(cursor) <=> i \in Stored /\ Past(cursor, i)
        /\ \A g, i \in DOMAIN log : Past(cursor, g) /\ ~Past(cursor, i) => ~Past(g, i)
        /\ \A g, i \in DOMAIN log : Past(g, i) <=> Ahead(g, i)
    BY <1>1, PastFacts
  <1>7. Owed' = Owed /\ Owed \subseteq Stored /\ Stored \subseteq DOMAIN log
    <2>1. Owed' = Owed
      BY <1>2 DEF Owed, IsReadable
    <2>2. Stored \subseteq DOMAIN log
      BY <1>1, LogFacts
    <2>3. DOMAIN log = 1 .. Len(log) /\ Len(log) \in Nat /\ oldest \in Nat
      BY <1>1, LogFacts
    <2>4. Owed \subseteq Stored
      BY <2>3 DEF Owed, Stored
    <2> QED
      BY <2>1, <2>2, <2>4
  <1>8. \A c, i : (Past(c, i))' = Past(c, i)
    BY <1>2 DEF Past, Ahead
  <1>9. f \in DOMAIN log /\ page' \subseteq DOMAIN log /\ \A i \in page' : Past(cursor, i) /\ ~Past(f, i)
    BY <1>3, <1>6, <1>7
  <1>10. \A i \in Owed : Past(cursor, i) /\ ~Past(f, i) => i \in page'
    BY <1>3, <1>6, <1>7, <1>9
  <1>11. pageInfo'.cursor = f \/ (pageInfo'.cursor = NoCursor /\ cut')
    BY <1>3
  <1>12. ASSUME LastPage', ~cut', NEW i \in Owed PROVE ~Past(f, i)
    <2>1. page' = After(cursor)
      BY <1>2, <1>3, <1>12 DEF LastPage
    <2>2. CASE Past(cursor, i)
      BY <1>6, <1>7, <1>9, <2>1, <2>2
    <2>3. CASE ~Past(cursor, i)
      BY <1>6, <1>7, <1>9, <2>3
    <2> QED
      BY <2>2, <2>3
  <1>13. (PageTo(f))'
    BY <1>2, <1>5, <1>7, <1>8, <1>9, <1>10, <1>11, <1>12 DEF PageTo
  <1>14. PageInHand'
    BY <1>2, <1>5, <1>9, <1>13 DEF PageInHand
  <1>15. Collected'
    <2>1. delivered \o <<>> = delivered
      BY ConcatEmptySeq DEF IInv, Types, Sequences
    <2> QED
      BY <1>1, <1>2, <1>4, <2>1 DEF Collected
  <1>16. UpToCursor'
    BY <1>1, <1>2, <1>7, <1>8 DEF IInv, Content, UpToCursor, Open
  <1>17. Order'
    <2>1. TakenOnce'
      BY <1>2, <1>5 DEF IInv, Order, TakenOnce, NoDuplicates, IsInjective
    <2>2. PageOrder'
      BY <1>2, <1>3, <1>5 DEF PageOrder
    <2>3. ForwardOrder'
      BY <1>2 DEF IInv, Order, ForwardOrder
    <2> QED
      BY <2>1, <2>2, <2>3 DEF Order
  <1> QED
    BY <1>14, <1>15, <1>16, <1>17 DEF Content

LEMMA DecodeStep ==
    ASSUME IInv, NEW i \in page, Decode(i)
    PROVE  Content' /\ Order'
  <1>1. /\ TypeOK /\ i \in DOMAIN log /\ i \in Nat
        /\ {messages, delivered, pageMessages} \subseteq Seq(Nat)
    BY LogFacts DEF IInv, Types, TypeOK, Sequences
  <1>2. /\ UNCHANGED <<log, oldest, dir, pageSize, asked, cursor, pageInfo, delivered, cut>>
        /\ status = "decoding" /\ status' \in {"decoding", "thrown"}
        /\ Through(i) /\ page' = page \ {i}
    BY DEF Decode, store, options
  <1>3. messages = delivered \o pageMessages
    BY <1>2 DEF IInv, Content, Collected
  <1>4. ToSet(messages) = ToSet(delivered) \cup ToSet(pageMessages)
    BY <1>1, <1>3, ConcatFacts
  <1>5. PICK f \in DOMAIN log : PageTo(f)
    BY <1>2 DEF IInv, Content, PageInHand
  <1>6. \A j \in Taken : Past(cursor, j)
    BY <1>5 DEF PageTo
  <1>7. \A j \in ToSet(delivered) : ~Past(cursor, j)
    BY <1>2 DEF IInv, Content, UpToCursor, Open
  <1>8. i \notin ToSet(messages)
    BY <1>2, <1>4, <1>6, <1>7 DEF IInv, Order, TakenOnce, Taken
  <1>9. CASE log[i] \in {Clear, Mine}
    <2>1. messages' = Append(messages, i) /\ pageMessages' = Append(pageMessages, i)
      BY <1>9 DEF Decode
    <2>2. /\ ToSet(pageMessages') = ToSet(pageMessages) \cup {i}
          /\ IsInjective(messages')
          /\ messages' = delivered \o pageMessages'
          /\ Len(messages) \in Nat /\ DOMAIN messages = 1 .. Len(messages)
          /\ DOMAIN messages' = 1 .. Len(messages) + 1
          /\ \A n \in 1 .. Len(messages) : messages'[n] = messages[n] /\ messages[n] \in ToSet(messages)
          /\ messages'[Len(messages) + 1] = i
      <3>1. IsInjective(messages)
        BY DEF IInv, Order, TakenOnce, NoDuplicates
      <3>2. Append(messages, i) = delivered \o Append(pageMessages, i)
        BY <1>1, <1>3, ConcatFacts
      <3>3. Append(messages, i) \in Seq(Nat) /\ Len(Append(messages, i)) = Len(messages) + 1
        BY <1>1, AppendFacts
      <3>4. /\ Len(messages) \in Nat /\ DOMAIN messages = 1 .. Len(messages)
            /\ DOMAIN Append(messages, i) = 1 .. Len(messages) + 1
        BY <1>1, <3>3, LenProperties
      <3> QED
        BY <1>1, <1>8, <2>1, <3>1, <3>2, <3>4, AppendFacts
    <2>3. Taken' = Taken
      BY <1>2, <2>2 DEF Taken
    <2>4. Collected'
      BY <1>2, <2>2 DEF Collected
    <2>5. UpToCursor'
      BY <1>2 DEF IInv, Content, UpToCursor, Open, Owed, IsReadable, Past, Ahead
    <2>6. PageInHand'
      <3>1. (PageTo(f))'
        BY <1>2, <1>5, <2>3 DEF PageTo, Owed, IsReadable, Past, Ahead, LastPage
      <3>2. \A j \in ToSet(pageMessages') : (IsReadable(j))'
        BY <1>2, <1>9, <2>2 DEF IInv, Content, PageInHand, IsReadable
      <3> QED
        BY <1>2, <3>1, <3>2 DEF PageInHand
    <2>7. TakenOnce'
      BY <1>2, <2>2 DEF IInv, Order, TakenOnce, NoDuplicates
    <2>8. PageOrder'
      <3>1. \A j \in page' : log[j] = Clear => log[i] = Clear /\ i < j
        <4> SUFFICES ASSUME NEW j \in page', log[j] = Clear PROVE log[i] = Clear /\ i < j
          OBVIOUS
        <4>1. j \in page /\ j # i /\ j \in Nat
          BY <1>1, <1>2, LogFacts
        <4>2. log[i] = Clear
          BY <1>2, <4>1 DEF Through
        <4>3. i <= j
          BY <1>2, <4>1, <4>2 DEF Through
        <4> QED
          BY <1>1, <4>1, <4>2, <4>3
      <3>2. dir = Forward => \A j, k \in Taken : j < k + ServerMax
        BY <1>2 DEF IInv, Order, PageOrder
      <3> QED
        BY <1>2, <2>2, <2>3, <3>1, <3>2 DEF IInv, Order, PageOrder
    <2>9. ForwardOrder'
      <3> SUFFICES ASSUME dir = Forward, NEW m \in DOMAIN messages', NEW n \in DOMAIN messages', m < n
                   PROVE  \/ messages'[m] < messages'[n]
                          \/ log[messages'[n]] # Clear /\ messages'[m] < messages'[n] + ServerMax
        BY <1>2 DEF ForwardOrder
      <3>1. CASE n \in 1 .. Len(messages)
        <4>1. m \in 1 .. Len(messages)
          BY <2>2, <3>1
        <4> QED
          BY <2>2, <3>1, <4>1 DEF IInv, Order, ForwardOrder
      <3>2. CASE n = Len(messages) + 1
        <4>1. m \in 1 .. Len(messages) /\ messages'[n] = i /\ messages'[m] = messages[m]
              /\ messages[m] \in ToSet(messages)
          BY <2>2, <3>2
        <4>2. messages[m] \in DOMAIN log /\ messages[m] \in Nat
          BY <1>1, <4>1, LogFacts DEF TypeOK
        <4>3. CASE messages[m] \in ToSet(delivered)
          <5>1. ~Past(cursor, messages[m]) /\ Past(cursor, i)
            BY <1>6, <1>7, <4>3 DEF Taken
          <5>2. ~Past(i, messages[m])
            BY <1>1, <4>2, <5>1, PastFacts
          <5>3. messages[m] <= i
            BY <1>1, <4>2, <5>2 DEF Past, Ahead
          <5>4. messages[m] # i
            BY <1>8, <4>1
          <5> QED
            BY <1>1, <4>1, <4>2, <5>3, <5>4
        <4>4. CASE messages[m] \in ToSet(pageMessages)
          <5>1. log[i] = Clear => messages[m] < i
            BY <1>2, <4>4 DEF IInv, Order, PageOrder
          <5>2. messages[m] < i + ServerMax
            BY <1>2, <4>4 DEF IInv, Order, PageOrder, Taken
          <5> QED
            BY <4>1, <5>1, <5>2
        <4> QED
          BY <1>4, <4>1, <4>3, <4>4
      <3> QED
        BY <2>2, <3>1, <3>2
    <2> QED
      BY <2>4, <2>5, <2>6, <2>7, <2>8, <2>9 DEF Content, Order
  <1>10. CASE log[i] \notin {Clear, Mine}
    <2>1. UNCHANGED <<messages, pageMessages>>
      BY <1>10 DEF Decode
    <2>2. Taken' \subseteq Taken /\ \A j \in Owed : j \in Taken => j \in Taken'
      BY <1>2, <1>10, <2>1 DEF Taken, Owed, IsReadable
    <2>3. Collected'
      BY <1>2, <1>3, <2>1 DEF Collected
    <2>4. UpToCursor'
      BY <1>2 DEF IInv, Content, UpToCursor, Open, Owed, IsReadable, Past, Ahead
    <2>5. PageInHand'
      <3>1. Owed' = Owed /\ LastPage' = LastPage /\ \A c, j : (Past(c, j))' = Past(c, j)
        BY <1>2 DEF Owed, IsReadable, LastPage, Past, Ahead
      <3>2. (PageTo(f))'
        BY <1>2, <1>5, <2>2, <3>1 DEF PageTo
      <3> QED
        BY <1>2, <2>1, <3>2 DEF IInv, Content, PageInHand, IsReadable
    <2>6. Order'
      BY <1>2, <2>1, <2>2 DEF IInv, Order, TakenOnce, NoDuplicates, IsInjective, PageOrder, ForwardOrder
    <2> QED
      BY <2>3, <2>4, <2>5, <2>6 DEF Content
  <1> QED
    BY <1>9, <1>10

(* What the end of a page adds, and how far the query has come with it.     *)
LEMMA FinishFacts ==
    ASSUME IInv, NEW callbackThrows \in BOOLEAN, FinishPage(callbackThrows)
    PROVE  /\ delivered' = messages
           /\ ToSet(delivered') = ToSet(delivered) \cup ToSet(pageMessages)
           /\ \A i \in ToSet(pageMessages) : i \in DOMAIN log /\ IsReadable(i)
           /\ \E f \in DOMAIN log :
                 /\ Past(cursor, f)
                 /\ \A i \in ToSet(pageMessages) : Past(cursor, i) /\ ~Past(f, i)
                 /\ \A i \in ToSet(delivered') : ~Past(f, i)
                 /\ \A i \in Owed : ~Past(f, i) => i \in ToSet(delivered')
                 /\ status' = "asking" => cursor' = f
                 /\ status' = "returned" => cut \/ Owed \subseteq ToSet(delivered')
           /\ status' \in {"asking", "returned", "thrown"}
           /\ status' # "asking" => cursor' \in {NoCursor, cursor}
  <1>1. /\ status = "decoding" /\ page = {} /\ delivered' = delivered \o pageMessages
        /\ TypeOK /\ delivered \in Seq(Nat) /\ pageMessages \in Seq(Nat)
    BY DEF FinishPage, IInv, Types, Sequences
  <1>2. delivered' = messages
    BY <1>1 DEF IInv, Content, Collected
  <1>3. ToSet(delivered') = ToSet(delivered) \cup ToSet(pageMessages)
    BY <1>1, ConcatFacts
  <1>4. /\ \A i \in ToSet(pageMessages) : i \in DOMAIN log /\ IsReadable(i)
        /\ ToSet(delivered) \subseteq DOMAIN log
    BY <1>1 DEF IInv, Content, PageInHand, TypeOK
  <1>5. PICK f \in DOMAIN log : PageTo(f)
    BY <1>1 DEF IInv, Content, PageInHand
  <1>6. Taken = ToSet(pageMessages)
    BY <1>1 DEF Taken
  <1>7. \A i \in DOMAIN log : ~Past(cursor, i) => ~Past(f, i)
    BY <1>1, <1>5, PastFacts DEF PageTo
  <1>8. /\ \A i \in ToSet(delivered) : ~Past(cursor, i)
        /\ \A i \in Owed : ~Past(cursor, i) => i \in ToSet(delivered)
    BY <1>1 DEF IInv, Content, UpToCursor, Open
  <1>9. \A i \in ToSet(delivered') : ~Past(f, i)
    BY <1>3, <1>4, <1>5, <1>6, <1>7, <1>8 DEF PageTo
  <1>10. \A i \in Owed : ~Past(f, i) => i \in ToSet(delivered')
    BY <1>3, <1>5, <1>6, <1>8 DEF PageTo
  <1>11. f # NoCursor
    BY <1>1, LogFacts
  <1>12. status' = "asking" => cursor' = f
    BY <1>5 DEF FinishPage, NextCursor, PageTo
  <1>13. status' = "returned" => cut \/ Owed \subseteq ToSet(delivered')
    BY <1>5, <1>10, <1>11 DEF FinishPage, NextCursor, PageTo
  <1>14. /\ status' \in {"asking", "returned", "thrown"}
         /\ status' # "asking" => cursor' \in {NoCursor, cursor}
    BY DEF FinishPage
  <1> QED
    BY <1>2, <1>3, <1>4, <1>5, <1>6, <1>9, <1>10, <1>12, <1>13, <1>14 DEF PageTo

LEMMA FinishStep ==
    ASSUME IInv, NEW callbackThrows \in BOOLEAN, FinishPage(callbackThrows)
    PROVE  Content' /\ Order'
  <1>1. /\ delivered' = messages /\ status' \in {"asking", "returned", "thrown"}
        /\ \E f \in DOMAIN log :
              /\ \A i \in ToSet(delivered') : ~Past(f, i)
              /\ \A i \in Owed : ~Past(f, i) => i \in ToSet(delivered')
              /\ status' = "asking" => cursor' = f
    BY FinishFacts
  <1>2. UNCHANGED <<log, oldest, dir, asked, messages>>
    BY DEF FinishPage, store, options
  <1>3. Owed' = Owed /\ \A c, i : (Past(c, i))' = Past(c, i)
    BY <1>2 DEF Owed, IsReadable, Past, Ahead
  <1>4. Collected' /\ PageInHand'
    BY <1>1, <1>2 DEF Collected, PageInHand
  <1>5. UpToCursor'
    BY <1>1, <1>3 DEF UpToCursor, Open
  <1>6. Order'
    BY <1>1, <1>2 DEF IInv, Order, TakenOnce, NoDuplicates, IsInjective, PageOrder, ForwardOrder
  <1> QED
    BY <1>4, <1>5, <1>6 DEF Content

LEMMA StepIInv == IInv /\ [Next]_vars => IInv'
  <1> SUFFICES ASSUME IInv, [Next]_vars PROVE IInv'
    OBVIOUS
  <1>1. Types'
    BY StepTypes DEF IInv
  <1> SUFFICES Content' /\ Order'
    BY <1>1 DEF IInv
  <1>2. ASSUME Frame PROVE Content' /\ Order'
    BY <1>2, FrameStep
  <1>3. CASE UNCHANGED vars
    <2>1. Frame
      BY <1>3 DEF Frame, vars, network, store, options, collected
    <2> QED
      BY <1>2, <2>1
  <1>4. ASSUME NEW target \in Peer \cup {AnyPeer}, Query(target) PROVE Content' /\ Order'
    BY <1>4, QueryStep
  <1>5. CASE Reject \/ RejectCursor \/ ReplyEmpty
    <2>1. Frame
      BY <1>5 DEF Frame, Reject, RejectCursor, ReplyEmpty, OnEmpty, store, options, collected
    <2> QED
      BY <1>2, <2>1
  <1>6. ASSUME NEW informs \in BOOLEAN, ReplyPage(informs) PROVE Content' /\ Order'
    BY <1>6, ReplyStep
  <1>7. ASSUME NEW i \in page, Decode(i) PROVE Content' /\ Order'
    BY <1>7, DecodeStep
  <1>8. ASSUME NEW callbackThrows \in BOOLEAN, FinishPage(callbackThrows) PROVE Content' /\ Order'
    BY <1>8, FinishStep
  <1>9. CASE Prune \/ \E k \in Kind : StoreMessage(k)
    BY <1>9, StoreStep
  <1>10. ASSUME NEW p \in Peer, Discover(p) \/ Connect(p) \/ Identify(p) \/ Disconnect(p)
         PROVE  Content' /\ Order'
    <2>1. Frame
      BY <1>10 DEF Frame, Discover, Connect, Identify, Disconnect, store, options, collected
    <2> QED
      BY <1>2, <2>1
  <1>11. Content' /\ Order'
    <2>1. CASE \E target \in Peer \cup {AnyPeer} : Query(target)
      BY <1>4, <2>1
    <2>2. CASE Answer
      BY <1>5, <1>6, <2>2 DEF Answer
    <2>3. CASE DecodeSome
      BY <1>7, <2>3 DEF DecodeSome
    <2>4. CASE Finish
      BY <1>8, <2>4 DEF Finish
    <2>5. CASE \E p \in Peer : Discover(p) \/ Connect(p) \/ Identify(p) \/ Disconnect(p)
      BY <1>10, <2>5
    <2> QED
      BY <1>3, <1>5, <1>9, <2>1, <2>2, <2>3, <2>4, <2>5 DEF Next
  <1> QED
    BY <1>11

LEMMA AlwaysIInv == Spec => []IInv
  BY InitIInv, StepIInv, PTL DEF Spec

-----------------------------------------------------------------------------
(* Theorems *)

(* The state of a query keeps its types: a cursor is a message of the store *)
(* and a page no larger than what a peer sends (waku_store/index.ts,        *)
(* queryHistory).                                                           *)
THEOREM QueryTypeCorrect == Spec => []TypeOK
  BY AlwaysIInv, PTL DEF IInv, Types

(* What a query returns is what its callback was given, page by page        *)
(* (waku_store/index.ts, messages and pageMessages).                        *)
THEOREM ReturnsItsPages == Spec => []ResultIsPages
  <1>1. IInv => ResultIsPages
    <2> SUFFICES ASSUME IInv PROVE ResultIsPages
      OBVIOUS
    <2>1. status \in {"idle", "asking", "decoding", "returned", "thrown"}
      BY DEF IInv, Types, TypeOK, Done
    <2>2. messages \in {delivered, delivered \o pageMessages}
      BY <2>1 DEF IInv, Content, Collected
    <2>3. IsPrefix(delivered, messages)
      BY <2>2, ConcatFacts DEF IInv, Types, Sequences
    <2> QED
      BY <2>3 DEF ResultIsPages, IInv, Content, Collected
  <1> QED
    BY <1>1, AlwaysIInv, PTL

(* No message is collected twice, whatever is stored and pruned between the *)
(* requests (waku_store/index.ts, the cursor of the reply).                 *)
THEOREM NothingTwice == Spec => []NoDuplicates
  BY AlwaysIInv, PTL DEF IInv, Order, TakenOnce

(* Paging forward is in order of time, but for encrypted messages, which    *)
(* come late by less than a page (waku_store/index.ts, the decodes).        *)
THEOREM ForwardInOrder == Spec => []ForwardOrder
  BY AlwaysIInv, PTL DEF IInv, Order

(* A query that asks for another page asks for one beyond the last: its     *)
(* cursor moves on through the store with every page, never back, and never *)
(* stays, whatever is stored and pruned meanwhile.  This is the variant     *)
(* behind Terminates (waku_store/index.ts, the end of the loop).            *)
AsksBeyond ==
    [][status # "idle" /\ (status # "asking" \/ cursor' # cursor) /\ status' = "asking"
       => cursor' \in DOMAIN log /\ Past(cursor, cursor')]_vars

THEOREM PagesAdvance == Spec => AsksBeyond
  <1> DEFINE Again == status # "idle" /\ (status # "asking" \/ cursor' # cursor) /\ status' = "asking"
             Beyond == cursor' \in DOMAIN log /\ Past(cursor, cursor')
  <1>1. ASSUME IInv, [Next]_vars, Again PROVE Beyond
    <2>1. CASE \E callbackThrows \in BOOLEAN : FinishPage(callbackThrows)
      BY <1>1, <2>1, FinishFacts
    <2>2. CASE UNCHANGED vars
      BY <1>1, <2>2 DEF vars
    <2>3. CASE \/ \E target \in Peer \cup {AnyPeer} : Query(target)
               \/ Reject \/ RejectCursor \/ ReplyEmpty
               \/ \E informs \in BOOLEAN : ReplyPage(informs)
               \/ DecodeSome
      BY <1>1, <2>3 DEF Query, Reject, RejectCursor, ReplyEmpty, OnEmpty, ReplyPage, DecodeSome, Decode
    <2>4. CASE \/ \E k \in Kind : StoreMessage(k)
               \/ Prune
               \/ \E p \in Peer : Discover(p) \/ Connect(p) \/ Identify(p) \/ Disconnect(p)
      BY <1>1, <2>4 DEF StoreMessage, Prune, Discover, Connect, Identify, Disconnect
    <2> QED
      BY <1>1, <2>1, <2>2, <2>3, <2>4 DEF Next, Answer, Finish
  <1>2. IInv /\ [Next]_vars => [Again => Beyond]_vars
    BY <1>1
  <1> QED
    BY <1>2, AlwaysIInv, PTL DEF Spec, AsksBeyond

-----------------------------------------------------------------------------
(* The query implements StoreHistory *)

LEMMA HistoryMeans ==
    ASSUME TypeOK
    PROVE  /\ History!Owed = Owed
           /\ \A c \in Nat, i \in DOMAIN log : History!Beyond(dir, c, i) <=> Past(c, i)
           /\ Owed \subseteq Stored
  <1>1. log \in Seq(Kind) /\ DOMAIN log = 1 .. Len(log) /\ Len(log) \in Nat /\ oldest \in Nat
    BY LogFacts DEF TypeOK
  <1>2. \A i \in DOMAIN log : log[i] \in Kind
    BY <1>1
  <1>3. History!Owed = Owed
    BY <1>2 DEF History!Owed, Owed, IsReadable
  <1>4. \A c \in Nat, i \in DOMAIN log : History!Beyond(dir, c, i) <=> Past(c, i)
    BY <1>1 DEF History!Beyond, Past, Ahead, NoCursor
  <1>5. Owed \subseteq Stored
    BY <1>1 DEF Owed, Stored
  <1> QED
    BY <1>3, <1>4, <1>5

LEMMA PageIsStep ==
    ASSUME IInv, NEW callbackThrows \in BOOLEAN, FinishPage(callbackThrows)
    PROVE  History!Page
  <1>1. PICK f \in DOMAIN log :
           /\ Past(cursor, f)
           /\ \A i \in ToSet(pageMessages) : Past(cursor, i) /\ ~Past(f, i)
           /\ \A i \in Owed : ~Past(f, i) => i \in ToSet(delivered')
           /\ status' = "asking" => cursor' = f
           /\ status' = "returned" => cut \/ Owed \subseteq ToSet(delivered')
    BY FinishFacts
  <1>2. /\ ToSet(delivered') = ToSet(delivered) \cup ToSet(pageMessages)
        /\ \A i \in ToSet(pageMessages) : i \in DOMAIN log /\ IsReadable(i)
        /\ status' \in {"asking", "returned", "thrown"}
        /\ status' # "asking" => cursor' \in {NoCursor, cursor}
    BY FinishFacts
  <1>3. /\ status = "decoding" /\ TypeOK
        /\ UNCHANGED <<log, oldest, dir, asked, cut>>
    BY DEF FinishPage, IInv, Types, store, options
  <1>4. /\ History!Owed = Owed /\ cursor \in Nat
        /\ \A c \in Nat, i \in DOMAIN log : History!Beyond(dir, c, i) <=> Past(c, i)
        /\ \A i \in DOMAIN log : i \in Nat /\ log[i] \in Kind
    BY <1>3, HistoryMeans, LogFacts DEF TypeOK
  <1>5. /\ History!Beyond(dir, cursor, f)
        /\ \A i \in DOMAIN log : i \in History!Passed(f)
              <=> IsReadable(i) /\ Past(cursor, i) /\ ~Past(f, i)
    BY <1>1, <1>4 DEF History!Passed, IsReadable
  <1>6. History!Passed(f) \cap History!Owed \subseteq ToSet(delivered')
    BY <1>1, <1>4, <1>5 DEF Owed
  <1>7. ToSet(delivered) \subseteq ToSet(delivered')
        /\ ToSet(delivered') \ ToSet(delivered) \subseteq History!Passed(f)
    BY <1>1, <1>2, <1>5
  <1>8. DEFINE state == IF status \in {"asking", "decoding"} THEN "open" ELSE status
  <1>9. /\ state = "open" /\ state' \in {"open", "returned", "thrown"}
        /\ state' = "open" <=> status' = "asking"
        /\ state' = "returned" <=> status' = "returned"
    BY <1>2, <1>3
  <1>10. cursor' \in IF state' = "open" THEN {f} ELSE {0, cursor}
    BY <1>1, <1>2, <1>9 DEF NoCursor
  <1>11. state' = "returned" => cut \/ History!Owed \subseteq ToSet(delivered')
    BY <1>1, <1>4, <1>9
  <1> QED
    BY <1>3, <1>5, <1>6, <1>7, <1>9, <1>10, <1>11 DEF History!Page

LEMMA HistoryStep == IInv /\ IInv' /\ [Next]_vars => [History!Next]_(History!vars)
  <1> SUFFICES ASSUME IInv, IInv', [Next]_vars PROVE History!Next \/ UNCHANGED History!vars
    OBVIOUS
  <1>1. TypeOK /\ TypeOK'
    BY DEF IInv, Types
  <1>2. ASSUME UNCHANGED <<log, oldest, status, dir, asked, cursor, delivered, cut>>
        PROVE  UNCHANGED History!vars
    BY <1>2 DEF History!vars
  <1>3. CASE UNCHANGED vars
    BY <1>2, <1>3 DEF vars, store, options, collected
  <1>4. CASE \E p \in Peer : Discover(p) \/ Connect(p) \/ Identify(p) \/ Disconnect(p)
    BY <1>2, <1>4 DEF Discover, Connect, Identify, Disconnect, store, options, collected
  <1>5. CASE \E target \in Peer \cup {AnyPeer} : Query(target)
    <2>1. /\ status = "idle" /\ status' \in {"asking", "thrown"}
          /\ dir' \in {Forward, Backward} /\ asked' = Len(log)
          /\ UNCHANGED <<log, oldest, cursor, delivered, cut>>
      BY <1>5 DEF Query, store, collected
    <2>2. History!Query
      BY <2>1 DEF History!Query
    <2> QED
      BY <2>2 DEF History!Next
  <1>6. CASE Reject \/ RejectCursor
    <2>1. /\ status = "asking" /\ status' = "thrown"
          /\ UNCHANGED <<log, oldest, dir, asked, cursor, delivered, cut>>
      BY <1>6 DEF Reject, RejectCursor, store, options, collected
    <2>2. History!Throw
      BY <2>1 DEF History!Throw
    <2> QED
      BY <2>2 DEF History!Next
  <1>7. CASE ReplyEmpty
    <2>1. /\ status = "asking" /\ status' = "returned" /\ After(cursor) = {}
          /\ UNCHANGED <<log, oldest, dir, asked, cursor, delivered, cut>>
      BY <1>7 DEF ReplyEmpty, OnEmpty, CursorSent, store, options, collected
    <2>2. \A i \in Owed : ~Past(cursor, i)
      BY <1>1, <2>1, PastFacts, HistoryMeans
    <2>3. History!Owed \subseteq ToSet(delivered)
      BY <1>1, <2>1, <2>2, HistoryMeans DEF IInv, Content, UpToCursor, Open
    <2>4. History!Return
      BY <2>1, <2>3 DEF History!Return
    <2> QED
      BY <2>4 DEF History!Next
  <1>8. ASSUME NEW informs \in BOOLEAN, ReplyPage(informs)
        PROVE  History!Next \/ UNCHANGED History!vars
    <2>1. /\ status = "asking" /\ status' = "decoding"
          /\ UNCHANGED <<log, oldest, dir, asked, cursor, delivered>>
      BY <1>8 DEF ReplyPage, store, options
    <2>2. CASE cut' = cut
      BY <2>1, <2>2 DEF History!vars
    <2>3. CASE cut' # cut
      <3>1. cut \in BOOLEAN /\ cut' \in BOOLEAN
        BY <1>1 DEF TypeOK
      <3>2. cut => cut'
        BY <1>8 DEF ReplyPage
      <3>3. cut' = TRUE
        BY <2>3, <3>1, <3>2
      <3>4. History!CutShort
        BY <2>1, <3>3 DEF History!CutShort
      <3> QED
        BY <3>4 DEF History!Next
    <2> QED
      BY <2>2, <2>3
  <1>9. CASE DecodeSome
    <2>1. /\ status = "decoding" /\ status' \in {"decoding", "thrown"}
          /\ UNCHANGED <<log, oldest, dir, asked, cursor, delivered, cut>>
      BY <1>9 DEF DecodeSome, Decode, store, options
    <2>2. CASE status' = "decoding"
      BY <1>2, <2>1, <2>2
    <2>3. CASE status' = "thrown"
      <3>1. History!Throw
        BY <2>1, <2>3 DEF History!Throw
      <3> QED
        BY <3>1 DEF History!Next
    <2> QED
      BY <2>1, <2>2, <2>3
  <1>10. CASE Finish
    BY <1>10, PageIsStep DEF Finish, History!Next
  <1>11. ASSUME NEW k \in Kind, StoreMessage(k) PROVE History!Next
    <2>1. History!StoreMessage(k)
      BY <1>11 DEF StoreMessage, History!StoreMessage, options, collected
    <2> QED
      BY <2>1 DEF History!Next
  <1>12. CASE Prune
    <2>1. History!Prune
      BY <1>12 DEF Prune, History!Prune, options, collected
    <2> QED
      BY <2>1 DEF History!Next
  <1> QED
    BY <1>3, <1>4, <1>5, <1>6, <1>7, <1>8, <1>9, <1>10, <1>11, <1>12 DEF Next, Answer

(* queryHistory implements the history query that its caller can reason     *)
(* about: an incomplete answer is returned only when the peer cut one short *)
(* or pruned what is missing (waku_store/index.ts, queryHistory).           *)
THEOREM QueryImplementsHistory == Spec => ImplementsHistory
  <1>1. Init => History!Init
    BY ToSetEmpty DEF Init, History!Init, NoCursor
  <1> QED
    BY <1>1, AlwaysIInv, HistoryStep, PTL DEF Spec, ImplementsHistory, History!Spec

=============================================================================

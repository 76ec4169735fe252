----------------------------- MODULE ProtobufProofs -----------------------------
(***************************************************************************)
(* Theorems about Protobuf: what a type's functions do to a message, given *)
(* what those of the messages it embeds do.                                *)
(***************************************************************************)
EXTENDS Protobuf, SequenceTheorems, WellFoundedInduction, TLAPS

CONSTANTS
    SubIs(_, _),       \* SubIs(T, m): m is a message of type T, to be embedded;
    SubPartial(_, _),  \* a partial one; what toJSON and
    SubKept(_, _)      \* fromJSON keep of it

(* A set that has zero, and with a number the next, has all.                *)
LEMMA Induct ==
    ASSUME NEW S, 0 \in S, \A i \in Nat : i \in S => i + 1 \in S
    PROVE  Nat \subseteq S
<1> DEFINE Missing == Nat \ S
<1> SUFFICES ASSUME Missing # {} PROVE FALSE
  OBVIOUS
<1>1. IsWellFoundedOn(OpToRel(<, Nat), Nat)
  BY NatLessThanWellFounded
<1>2. PICK x \in Missing : \A y \in Missing : ~(<<y, x>> \in OpToRel(<, Nat))
  BY <1>1, WFMin
<1>3. x - 1 \in Missing /\ x - 1 \in Nat /\ x - 1 < x
  OBVIOUS
<1>4. <<x - 1, x>> \in OpToRel(<, Nat)
  BY <1>3 DEF OpToRel
<1> QED BY <1>2, <1>3, <1>4

-----------------------------------------------------------------------------
(* Sequences *)

(* FlattenSeq joins the sequences one after the other.                      *)
LEMMA FlatSteps ==
    ASSUME NEW S, NEW s \in Seq(Seq(S)), Len(s) # 0
    PROVE  \E f \in [1 .. Len(s) -> Seq(S)] :
              /\ f[1] = s[1]
              /\ \A i \in 2 .. Len(s) : f[i] = f[i - 1] \o s[i]
              /\ FlattenSeq(s) = f[Len(s)]
<1> DEFINE n == Len(s)
           Fits(k, f) == f = [i \in 1 .. k |-> IF i = 1 THEN s[i] ELSE f[i - 1] \o s[i]]
           Filled == {k \in Nat : k <= n => \E f : Fits(k, f)}
<1>0. n \in Nat /\ n >= 1 /\ \A i \in 1 .. n : s[i] \in Seq(S)
  OBVIOUS
<1> HIDE DEF n, Fits, Filled
<1>1. 0 \in Filled
  <2> DEFINE none == [i \in 1 .. 0 |-> i]
  <2>1. none = [i \in 1 .. 0 |-> IF i = 1 THEN s[i] ELSE none[i - 1] \o s[i]]
    <3>1. 1 .. 0 = {}
      OBVIOUS
    <3> QED BY <3>1, Zenon
  <2> HIDE DEF none
  <2>2. Fits(0, none)
    BY <2>1 DEF Fits
  <2> QED BY <2>2 DEF Filled
<1>2. ASSUME NEW k \in Nat, k \in Filled PROVE k + 1 \in Filled
  <2> SUFFICES ASSUME k + 1 <= n PROVE \E f : Fits(k + 1, f)
    BY DEF Filled
  <2>0. k <= n
    BY <1>0
  <2>1. PICK f : Fits(k, f)
    BY <2>0, <1>2 DEF Filled
  <2> DEFINE g == [i \in 1 .. k + 1 |-> IF i <= k THEN f[i] ELSE IF i = 1 THEN s[i] ELSE f[i - 1] \o s[i]]
  <2>2. \A i \in 1 .. k + 1 : g[i] = IF i = 1 THEN s[i] ELSE g[i - 1] \o s[i]
    <3> TAKE i \in 1 .. k + 1
    <3>1. CASE i <= k
      <4>1. i \in 1 .. k
        BY <3>1
      <4>2. f[i] = IF i = 1 THEN s[i] ELSE f[i - 1] \o s[i]
        BY <2>1, <4>1 DEF Fits
      <4>3. i # 1 => g[i - 1] = f[i - 1]
        BY <3>1
      <4> QED BY <3>1, <4>2, <4>3
    <3>2. CASE i = k + 1
      <4>1. i # 1 => g[i - 1] = f[i - 1]
        BY <3>2
      <4>2. ~(i <= k)
        BY <3>2
      <4> QED BY <3>2, <4>1, <4>2
    <3> QED BY <3>1, <3>2
  <2>3. g = [i \in 1 .. k + 1 |-> g[i]]
    OBVIOUS
  <2> HIDE DEF g
  <2>4. Fits(k + 1, g)
    BY <2>2, <2>3 DEF Fits
  <2> QED BY <2>4
<1>3. \E f : Fits(n, f)
  <2>1. Nat \subseteq Filled
    BY <1>1, <1>2, Induct
  <2>2. n \in Filled /\ n <= n
    BY <1>0, <2>1
  <2> QED BY <2>2 DEF Filled
<1> DEFINE f == CHOOSE f : Fits(n, f)
<1>4. Fits(n, f)
  BY <1>3
<1>5. FlattenSeq(s) = f[n]
  BY <1>0 DEF FlattenSeq, Fits, n
<1> HIDE DEF f
<1>6. f = [i \in 1 .. n |-> f[i]] /\ \A i \in 1 .. n : f[i] = IF i = 1 THEN s[i] ELSE f[i - 1] \o s[i]
  BY <1>4 DEF Fits
<1>7. \A i \in 1 .. n : f[i] \in Seq(S)
  <2> DEFINE Good == {k \in Nat : k \in 1 .. n => f[k] \in Seq(S)}
  <2>1. 0 \in Good
    OBVIOUS
  <2>2. ASSUME NEW k \in Nat, k \in Good PROVE k + 1 \in Good
    <3> SUFFICES ASSUME k + 1 \in 1 .. n PROVE f[k + 1] \in Seq(S)
      OBVIOUS
    <3>1. f[k + 1] = IF k + 1 = 1 THEN s[k + 1] ELSE f[(k + 1) - 1] \o s[k + 1]
      BY <1>6
    <3>2. (k + 1) - 1 = k /\ (k + 1 # 1 => k \in 1 .. n)
      BY <1>0
    <3>3. s[k + 1] \in Seq(S)
      BY <1>0
    <3>4. k + 1 # 1 => f[k] \in Seq(S)
      BY <2>2, <3>2
    <3> QED BY <3>1, <3>2, <3>3, <3>4
  <2>3. Nat \subseteq Good
    <3> HIDE DEF Good
    <3> QED BY <2>1, <2>2, Induct
  <2> QED BY <1>0, <2>3
<1>8. f \in [1 .. n -> Seq(S)]
  BY <1>6, <1>7
<1>9. f[1] = s[1]
  <2>1. 1 \in 1 .. n
    BY <1>0
  <2> QED BY <1>6, <2>1
<1>10. ASSUME NEW i \in 2 .. n PROVE f[i] = f[i - 1] \o s[i]
  <2>1. i \in 1 .. n /\ i # 1
    BY <1>0
  <2> QED BY <1>6, <2>1, Zenon
<1> QED BY <1>5, <1>8, <1>9, <1>10 DEF n

(* The same for sequences: the empty one and with a sequence the longer.    *)
LEMMA SeqInduct ==
    ASSUME NEW S, NEW G, <<>> \in G, \A s \in Seq(S), e \in S : s \in G => Append(s, e) \in G
    PROVE  Seq(S) \subseteq G
<1> DEFINE Done == {n \in Nat : \A s \in Seq(S) : Len(s) = n => s \in G}
<1>1. 0 \in Done
  OBVIOUS
<1>2. ASSUME NEW n \in Nat, n \in Done PROVE n + 1 \in Done
  <2> SUFFICES ASSUME NEW s \in Seq(S), Len(s) = n + 1 PROVE s \in G
    OBVIOUS
  <2>1. s # <<>>
    OBVIOUS
  <2>2. PICK u \in Seq(S), e \in S : s = Append(u, e)
    BY <2>1, SequenceEmptyOrAppend
  <2>3. Len(s) = Len(u) + 1
    BY <2>2
  <2>4. Len(u) = n
    BY <2>3
  <2>5. u \in G
    BY <1>2, <2>4
  <2> QED BY <2>2, <2>5
<1> HIDE DEF Done
<1>3. Nat \subseteq Done
  BY <1>1, <1>2, Induct
<1> QED BY <1>3 DEF Done

LEMMA FlatEmpty == FlattenSeq(<<>>) = <<>>
  BY DEF FlattenSeq

LEMMA FlatAppend ==
    ASSUME NEW S, NEW s \in Seq(Seq(S)), NEW p \in Seq(S)
    PROVE  /\ FlattenSeq(s) \in Seq(S)
           /\ FlattenSeq(Append(s, p)) = FlattenSeq(s) \o p
<1> DEFINE t == Append(s, p)
           n == Len(s)
<1>0. /\ t \in Seq(Seq(S)) /\ Len(t) = n + 1 /\ n \in Nat /\ t[n + 1] = p
      /\ \A i \in 1 .. n : t[i] = s[i]
  BY AppendProperties
<1> HIDE DEF t, n
<1>1. PICK g \in [1 .. n + 1 -> Seq(S)] :
         /\ g[1] = t[1] /\ FlattenSeq(t) = g[n + 1]
         /\ \A i \in 2 .. n + 1 : g[i] = g[i - 1] \o t[i]
  <2>1. t \in Seq(Seq(S)) /\ Len(t) # 0
    BY <1>0
  <2>2. \E g \in [1 .. Len(t) -> Seq(S)] :
           /\ g[1] = t[1]
           /\ \A i \in 2 .. Len(t) : g[i] = g[i - 1] \o t[i]
           /\ FlattenSeq(t) = g[Len(t)]
    BY <2>1, FlatSteps, Zenon
  <2>3. Len(t) = n + 1
    BY <1>0
  <2> QED BY <2>2, <2>3, Zenon
<1>2. CASE n = 0
  <2>1. s = <<>> /\ FlattenSeq(s) = <<>>
    BY <1>2, FlatEmpty DEF n
  <2>2. FlattenSeq(t) = p
    BY <1>0, <1>1, <1>2
  <2>3. FlattenSeq(s) \o p = p /\ FlattenSeq(s) \in Seq(S)
    <3>1. <<>> \o p = p /\ <<>> \in Seq(S)
      BY ConcatEmptySeq
    <3> QED BY <2>1, <3>1
  <2> QED BY <2>2, <2>3 DEF t
<1>3. CASE n # 0
  <2>1. PICK f \in [1 .. n -> Seq(S)] :
           /\ f[1] = s[1] /\ FlattenSeq(s) = f[n]
           /\ \A i \in 2 .. n : f[i] = f[i - 1] \o s[i]
    BY <1>3, FlatSteps DEF n
  <2> DEFINE Same == {k \in Nat : k \in 1 .. n => g[k] = f[k]}
  <2>2. ASSUME NEW k \in Nat, k \in Same PROVE k + 1 \in Same
    <3> SUFFICES ASSUME k + 1 \in 1 .. n PROVE g[k + 1] = f[k + 1]
      OBVIOUS
    <3>1. t[k + 1] = s[k + 1]
      BY <1>0
    <3>2. CASE k = 0
      <4>1. g[1] = f[1]
        BY <1>1, <2>1, <3>1, <3>2
      <4> QED BY <3>2, <4>1
    <3>3. CASE k # 0
      <4>1. k \in 1 .. n /\ k + 1 \in 2 .. n /\ k + 1 \in 2 .. n + 1 /\ (k + 1) - 1 = k
        BY <1>0, <3>3
      <4>2. g[k + 1] = g[k] \o t[k + 1] /\ f[k + 1] = f[k] \o s[k + 1]
        BY <1>1, <2>1, <4>1
      <4>3. g[k] = f[k]
        BY <2>2, <4>1
      <4> QED BY <3>1, <4>2, <4>3
    <3> QED BY <3>2, <3>3
  <2>3. 0 \in Same
    OBVIOUS
  <2> HIDE DEF Same
  <2>4. Nat \subseteq Same
    BY <2>2, <2>3, Induct
  <2>5. g[n] = f[n]
    BY <1>0, <1>3, <2>4 DEF Same
  <2>6. g[n + 1] = g[n] \o t[n + 1]
    <3>1. n + 1 \in 2 .. n + 1 /\ (n + 1) - 1 = n
      BY <1>0, <1>3
    <3> QED BY <1>1, <3>1
  <2>7. f[n] \in Seq(S)
    BY <1>0, <1>3
  <2> QED BY <1>0, <1>1, <2>1, <2>5, <2>6, <2>7 DEF t
<1> QED BY <1>2, <1>3

-----------------------------------------------------------------------------
(* Occurrences *)

OfNumber(e, num) == IF e.num = num THEN <<e.val>> ELSE <<>>

LEMMA OccurrencesEmpty == ASSUME NEW num PROVE Occurrences(<<>>, num) = <<>>
<1>1. [i \in DOMAIN <<>> |-> IF <<>>[i].num = num THEN <<<<>>[i].val>> ELSE <<>>] = <<>>
  OBVIOUS
<1> QED BY <1>1, FlatEmpty DEF Occurrences

(* The occurrences in an encoding with one more field.                      *)
LEMMA OccurrencesAppend ==
    ASSUME NEW E, NEW w \in Seq(E), NEW e \in E, NEW num
    PROVE  /\ Occurrences(w, num) \in Seq({x.val : x \in E})
           /\ Occurrences(Append(w, e), num) = Occurrences(w, num) \o OfNumber(e, num)
<1> DEFINE V == {x.val : x \in E}
           v == Append(w, e)
           ones(u) == [i \in DOMAIN u |-> OfNumber(u[i], num)]
<1>1. \A x \in E : OfNumber(x, num) \in Seq(V)
  <2> TAKE x \in E
  <2>1. x.val \in V
    OBVIOUS
  <2> HIDE DEF V
  <2>2. <<>> \in Seq(V) /\ <<x.val>> \in Seq(V)
    BY <2>1
  <2> QED BY <2>2 DEF OfNumber
<1> HIDE DEF V
<1>2. \A u \in Seq(E) : /\ ones(u) \in Seq(Seq(V)) /\ Len(ones(u)) = Len(u)
                        /\ \A i \in 1 .. Len(u) : ones(u)[i] = OfNumber(u[i], num)
                        /\ Occurrences(u, num) = FlattenSeq(ones(u))
  <2> TAKE u \in Seq(E)
  <2>1. DOMAIN u = 1 .. Len(u) /\ Len(u) \in Nat /\ \A i \in 1 .. Len(u) : u[i] \in E
    OBVIOUS
  <2>2. \A i \in 1 .. Len(u) : OfNumber(u[i], num) \in Seq(V)
    BY <1>1, <2>1
  <2>3. ones(u) = [i \in 1 .. Len(u) |-> OfNumber(u[i], num)]
    BY <2>1
  <2>4. ones(u) \in Seq(Seq(V)) /\ Len(ones(u)) = Len(u)
    BY <2>1, <2>2, <2>3
  <2>5. Occurrences(u, num) = FlattenSeq(ones(u))
    BY DEF Occurrences, OfNumber
  <2> QED BY <2>3, <2>4, <2>5
<1>3. v \in Seq(E) /\ Len(v) = Len(w) + 1 /\ v[Len(w) + 1] = e /\ \A i \in 1 .. Len(w) : v[i] = w[i]
  BY AppendProperties
<1> HIDE DEF v, ones
<1>4. ones(v) = Append(ones(w), OfNumber(e, num))
  <2> DEFINE a == Append(ones(w), OfNumber(e, num))
  <2>1. a \in Seq(Seq(V)) /\ Len(a) = Len(w) + 1 /\ a[Len(w) + 1] = OfNumber(e, num)
        /\ \A i \in 1 .. Len(w) : a[i] = ones(w)[i]
    BY <1>1, <1>2, AppendProperties
  <2> HIDE DEF a
  <2>2. ones(v) \in Seq(Seq(V)) /\ Len(ones(v)) = Len(w) + 1 /\ Len(w) \in Nat
    BY <1>2, <1>3
  <2>3. ASSUME NEW i \in 1 .. Len(ones(v)) PROVE ones(v)[i] = a[i]
    <3>1. ones(v)[i] = OfNumber(v[i], num)
      BY <1>2, <1>3, <2>2
    <3>2. CASE i = Len(w) + 1
      BY <1>3, <2>1, <3>1, <3>2
    <3>3. CASE i # Len(w) + 1
      <4>1. i \in 1 .. Len(w)
        BY <2>2, <3>3
      <4>2. a[i] = ones(w)[i] /\ ones(w)[i] = OfNumber(w[i], num) /\ v[i] = w[i]
        BY <1>2, <1>3, <2>1, <4>1
      <4> QED BY <3>1, <4>2
    <3> QED BY <3>2, <3>3
  <2>4. ones(v) = a
    BY <2>1, <2>2, <2>3, SeqEqual
  <2> QED BY <2>4 DEF a
<1>5. /\ FlattenSeq(ones(w)) \in Seq(V)
      /\ FlattenSeq(Append(ones(w), OfNumber(e, num))) = FlattenSeq(ones(w)) \o OfNumber(e, num)
  BY <1>1, <1>2, FlatAppend
<1> QED BY <1>2, <1>3, <1>4, <1>5 DEF v, V

LEMMA OccurrencesTyped ==
    ASSUME NEW E, NEW w \in Seq(E), NEW num
    PROVE  Occurrences(w, num) \in Seq({x.val : x \in E})
<1> DEFINE V == {x.val : x \in E}
<1> HIDE DEF V
<1>1. CASE w = <<>>
  <2>1. <<>> \in Seq(V)
    OBVIOUS
  <2> QED BY <1>1, <2>1, OccurrencesEmpty DEF V
<1>2. CASE w # <<>>
  <2>1. PICK x \in E : TRUE
    BY <1>2, SequenceEmptyOrAppend
  <2> QED BY <2>1, OccurrencesAppend
<1> QED BY <1>1, <1>2

(* One encoding after the other. *)
LEMMA OccurrencesConcat ==
    ASSUME NEW E, NEW u \in Seq(E), NEW v \in Seq(E), NEW num
    PROVE  Occurrences(u \o v, num) = Occurrences(u, num) \o Occurrences(v, num)
<1> DEFINE V == {x.val : x \in E}
           G == {w \in Seq(E) : Occurrences(u \o w, num) = Occurrences(u, num) \o Occurrences(w, num)}
<1>0. \A w \in Seq(E) : Occurrences(w, num) \in Seq(V)
  BY OccurrencesTyped
<1>1. <<>> \in G
  <2>1. u \o <<>> = u /\ <<>> \in Seq(E)
    BY ConcatEmptySeq
  <2>2. Occurrences(u, num) \o <<>> = Occurrences(u, num)
    <3> HIDE DEF V
    <3> QED BY <1>0, ConcatEmptySeq
  <2> QED BY <2>1, <2>2, OccurrencesEmpty
<1>2. ASSUME NEW w \in Seq(E), NEW e \in E, w \in G PROVE Append(w, e) \in G
  <2>1. u \o Append(w, e) = Append(u \o w, e) /\ u \o w \in Seq(E) /\ Append(w, e) \in Seq(E)
    OBVIOUS
  <2>0. \A x \in Seq(E) : Occurrences(Append(x, e), num) = Occurrences(x, num) \o OfNumber(e, num)
    BY OccurrencesAppend, Zenon
  <2>2. Occurrences(Append(u \o w, e), num) = Occurrences(u \o w, num) \o OfNumber(e, num)
    BY <2>0, <2>1, Zenon
  <2>3. Occurrences(Append(w, e), num) = Occurrences(w, num) \o OfNumber(e, num)
    BY <2>0, Zenon
  <2>4. Occurrences(u \o w, num) = Occurrences(u, num) \o Occurrences(w, num)
    BY <1>2
  <2>5. OfNumber(e, num) \in Seq(V)
    <3>1. e.val \in V
      OBVIOUS
    <3> HIDE DEF V
    <3> QED BY <3>1 DEF OfNumber
  <2>6. (Occurrences(u, num) \o Occurrences(w, num)) \o OfNumber(e, num)
           = Occurrences(u, num) \o (Occurrences(w, num) \o OfNumber(e, num))
    <3> DEFINE a == Occurrences(u, num)
               b == Occurrences(w, num)
               c == OfNumber(e, num)
    <3> HIDE DEF V
    <3>1. a \in Seq(V) /\ b \in Seq(V) /\ c \in Seq(V)
      BY <1>0, <2>5
    <3> HIDE DEF a, b, c
    <3>2. \A x, y, z \in Seq(V) : (x \o y) \o z = x \o (y \o z)
      BY ConcatAssociative
    <3>3. (a \o b) \o c = a \o (b \o c)
      BY <3>1, <3>2, Zenon
    <3> QED BY <3>3 DEF a, b, c
  <2>7. Occurrences(u \o Append(w, e), num) = Occurrences(u, num) \o Occurrences(Append(w, e), num)
    BY <2>1, <2>2, <2>3, <2>4, <2>6, Zenon
  <2> QED BY <2>1, <2>7
<1> HIDE DEF G
<1>3. Seq(E) \subseteq G
  BY <1>1, <1>2, SeqInduct
<1> QED BY <1>3 DEF G

LEMMA OccurrencesOne ==
    ASSUME NEW e, NEW num PROVE Occurrences(<<e>>, num) = OfNumber(e, num)
<1> DEFINE E == {e}
           V == {x.val : x \in E}
<1>1. e \in E /\ <<>> \in Seq(E) /\ <<e>> = Append(<<>>, e)
  OBVIOUS
<1>2. OfNumber(e, num) \in Seq(V)
  <2>1. e.val \in V
    OBVIOUS
  <2> HIDE DEF V
  <2> QED BY <2>1 DEF OfNumber
<1> HIDE DEF E
<1>3. Occurrences(<<e>>, num) = <<>> \o OfNumber(e, num)
  <2>1. Occurrences(Append(<<>>, e), num) = Occurrences(<<>>, num) \o OfNumber(e, num)
    BY <1>1, OccurrencesAppend
  <2> QED BY <1>1, <2>1, OccurrencesEmpty, Zenon
<1> HIDE DEF V
<1> QED BY <1>2, <1>3, ConcatEmptySeq

(* Of a sequence of parts of which one only has fields of the number.       *)
LEMMA OccurrencesOnly ==
    ASSUME NEW E, NEW parts \in Seq(Seq(E)), NEW num, NEW k,
           \A i \in DOMAIN parts : i # k => Occurrences(parts[i], num) = <<>>
    PROVE  /\ FlattenSeq(parts) \in Seq(E)
           /\ k \in DOMAIN parts => Occurrences(FlattenSeq(parts), num) = Occurrences(parts[k], num)
<1> DEFINE Others(ps) == \A i \in DOMAIN ps : i # k => Occurrences(ps[i], num) = <<>>
           G == {ps \in Seq(Seq(E)) : Others(ps) =>
                    /\ FlattenSeq(ps) \in Seq(E)
                    /\ Occurrences(FlattenSeq(ps), num)
                          = IF k \in DOMAIN ps THEN Occurrences(ps[k], num) ELSE <<>>}
<1>1. <<>> \in G
  <2>1. DOMAIN <<>> = {} /\ <<>> \in Seq(E) /\ <<>> \in Seq(Seq(E))
    OBVIOUS
  <2>2. FlattenSeq(<<>>) = <<>> /\ Occurrences(<<>>, num) = <<>>
    BY FlatEmpty, OccurrencesEmpty
  <2> QED BY <2>1, <2>2
<1>2. ASSUME NEW ps \in Seq(Seq(E)), NEW p \in Seq(E), ps \in G PROVE Append(ps, p) \in G
  <2> DEFINE qs == Append(ps, p)
             n == Len(ps)
  <2>1. /\ qs \in Seq(Seq(E)) /\ DOMAIN qs = 1 .. n + 1 /\ DOMAIN ps = 1 .. n /\ n \in Nat
        /\ qs[n + 1] = p /\ \A i \in 1 .. n : qs[i] = ps[i]
    BY AppendProperties
  <2>2. FlattenSeq(ps) \in Seq(E) /\ FlattenSeq(qs) = FlattenSeq(ps) \o p
    BY FlatAppend
  <2>3. FlattenSeq(qs) \in Seq(E)
    BY <2>2, ConcatProperties
  <2>4. Occurrences(FlattenSeq(qs), num) = Occurrences(FlattenSeq(ps), num) \o Occurrences(p, num)
    BY <2>2, OccurrencesConcat
  <2> HIDE DEF qs, n
  <2> SUFFICES ASSUME Others(qs)
               PROVE  Occurrences(FlattenSeq(qs), num)
                         = IF k \in DOMAIN qs THEN Occurrences(qs[k], num) ELSE <<>>
    BY <2>1, <2>3 DEF qs
  <2>5. Others(ps)
    BY <2>1
  <2>6. Occurrences(FlattenSeq(ps), num) = IF k \in DOMAIN ps THEN Occurrences(ps[k], num) ELSE <<>>
    BY <1>2, <2>5
  <2> DEFINE V == {x.val : x \in E}
  <2>7. Occurrences(p, num) \in Seq(V) /\ Occurrences(FlattenSeq(ps), num) \in Seq(V)
    <3> HIDE DEF V
    <3> QED BY <2>2, OccurrencesTyped DEF V
  <2>8. /\ Occurrences(p, num) \o <<>> = Occurrences(p, num)
        /\ <<>> \o Occurrences(p, num) = Occurrences(p, num)
        /\ Occurrences(FlattenSeq(ps), num) \o <<>> = Occurrences(FlattenSeq(ps), num)
    <3> HIDE DEF V
    <3> QED BY <2>7, ConcatEmptySeq
  <2>9. CASE k = n + 1
    <3>1. k \notin DOMAIN ps /\ k \in DOMAIN qs /\ qs[k] = p
      BY <2>1, <2>9
    <3> QED BY <2>4, <2>6, <2>8, <3>1
  <2>10. CASE k # n + 1
    <3>1. Occurrences(p, num) = <<>>
      BY <2>1, <2>10
    <3>2. k \in DOMAIN qs <=> k \in DOMAIN ps
      BY <2>1, <2>10
    <3>3. k \in DOMAIN ps => qs[k] = ps[k]
      BY <2>1
    <3> QED BY <2>4, <2>6, <2>8, <3>1, <3>2, <3>3
  <2> QED BY <2>9, <2>10
<1> HIDE DEF G
<1>3. Seq(Seq(E)) \subseteq G
  BY <1>1, <1>2, SeqInduct
<1> QED BY <1>3 DEF G

(* A part that is all of one number. *)
LEMMA OccurrencesSame ==
    ASSUME NEW E, NEW w \in Seq(E), NEW num,
           \A i \in DOMAIN w : w[i].num = num
    PROVE  Occurrences(w, num) = [i \in DOMAIN w |-> w[i].val]
<1> DEFINE V == {x.val : x \in E}
           vals(u) == [i \in DOMAIN u |-> u[i].val]
           G == {u \in Seq(E) : (\A i \in DOMAIN u : u[i].num = num) => Occurrences(u, num) = vals(u)}
<1>1. <<>> \in G
  <2>1. vals(<<>>) = <<>> /\ <<>> \in Seq(E)
    OBVIOUS
  <2> QED BY <2>1, OccurrencesEmpty
<1>2. ASSUME NEW u \in Seq(E), NEW e \in E, u \in G PROVE Append(u, e) \in G
  <2> DEFINE v == Append(u, e)
             n == Len(u)
  <2>1. /\ v \in Seq(E) /\ DOMAIN v = 1 .. n + 1 /\ DOMAIN u = 1 .. n /\ n \in Nat
        /\ v[n + 1] = e /\ \A i \in 1 .. n : v[i] = u[i]
    BY AppendProperties
  <2>2. Occurrences(v, num) = Occurrences(u, num) \o OfNumber(e, num)
    BY OccurrencesAppend
  <2> HIDE DEF v, n
  <2> SUFFICES ASSUME \A i \in DOMAIN v : v[i].num = num
               PROVE  Occurrences(v, num) = vals(v)
    BY <2>1 DEF v
  <2>3. e.num = num /\ \A i \in DOMAIN u : u[i].num = num
    BY <2>1
  <2>4. Occurrences(v, num) = vals(u) \o <<e.val>>
    BY <1>2, <2>2, <2>3 DEF OfNumber
  <2>5. /\ vals(u) \in Seq(V) /\ vals(v) \in Seq(V) /\ <<e.val>> \in Seq(V)
        /\ Len(vals(u)) = n /\ Len(vals(v)) = n + 1
        /\ (\A i \in 1 .. n : vals(u)[i] = u[i].val) /\ \A i \in 1 .. n + 1 : vals(v)[i] = v[i].val
    <3>1. (\A i \in 1 .. n : u[i].val \in V) /\ (\A i \in 1 .. n + 1 : v[i].val \in V) /\ e.val \in V
      BY <2>1
    <3> HIDE DEF V
    <3> QED BY <2>1, <3>1
  <2>6. vals(u) \o <<e.val>> = vals(v)
    <3> DEFINE a == vals(u) \o <<e.val>>
    <3> HIDE DEF V, vals
    <3>1. /\ a \in Seq(V) /\ Len(a) = n + 1
          /\ \A i \in 1 .. n + 1 : a[i] = IF i <= n THEN vals(u)[i] ELSE <<e.val>>[i - n]
      BY <2>1, <2>5, ConcatProperties
    <3> HIDE DEF a
    <3>2. ASSUME NEW i \in 1 .. Len(a) PROVE a[i] = vals(v)[i]
      <4>1. CASE i <= n
        <5>1. i \in 1 .. n /\ i \in 1 .. n + 1
          BY <2>1, <3>1, <4>1
        <5>2. a[i] = vals(u)[i]
          BY <3>1, <4>1, <5>1
        <5>3. vals(u)[i] = u[i].val /\ vals(v)[i] = v[i].val /\ v[i] = u[i]
          BY <2>1, <2>5, <5>1
        <5> QED BY <5>2, <5>3
      <4>2. CASE ~(i <= n)
        <5>1. i = n + 1 /\ i - n = 1
          BY <2>1, <3>1, <4>2
        <5> QED BY <2>1, <2>5, <3>1, <5>1
      <4> QED BY <4>1, <4>2
    <3>3. a = vals(v)
      BY <2>5, <3>1, <3>2, SeqEqual
    <3> QED BY <3>3 DEF a
  <2> QED BY <2>4, <2>6
<1> HIDE DEF G
<1>3. Seq(E) \subseteq G
  BY <1>1, <1>2, SeqInduct
<1> QED BY <1>3 DEF G

(* A part that has nothing of a number. *)
LEMMA OccurrencesNone ==
    ASSUME NEW E, NEW w \in Seq(E), NEW num,
           \A i \in DOMAIN w : w[i].num # num
    PROVE  Occurrences(w, num) = <<>>
<1> DEFINE G == {u \in Seq(E) : (\A i \in DOMAIN u : u[i].num # num) => Occurrences(u, num) = <<>>}
<1>1. <<>> \in G
  <2>1. <<>> \in Seq(E)
    OBVIOUS
  <2> QED BY <2>1, OccurrencesEmpty
<1>2. ASSUME NEW u \in Seq(E), NEW e \in E, u \in G PROVE Append(u, e) \in G
  <2> DEFINE v == Append(u, e)
             n == Len(u)
  <2>1. /\ v \in Seq(E) /\ DOMAIN v = 1 .. n + 1 /\ DOMAIN u = 1 .. n /\ n \in Nat
        /\ v[n + 1] = e /\ \A i \in 1 .. n : v[i] = u[i]
    BY AppendProperties
  <2>2. Occurrences(v, num) = Occurrences(u, num) \o OfNumber(e, num)
    BY OccurrencesAppend
  <2> HIDE DEF v, n
  <2> SUFFICES ASSUME \A i \in DOMAIN v : v[i].num # num
               PROVE  Occurrences(v, num) = <<>>
    BY <2>1 DEF v
  <2>3. e.num # num /\ \A i \in DOMAIN u : u[i].num # num
    BY <2>1
  <2>4. Occurrences(v, num) = <<>> \o <<>>
    BY <1>2, <2>2, <2>3 DEF OfNumber
  <2> QED BY <2>4
<1> HIDE DEF G
<1>3. Seq(E) \subseteq G
  BY <1>1, <1>2, SeqInduct
<1> QED BY <1>3 DEF G

(* Of a number that is there something is read.                             *)
LEMMA OccurrencesSome ==
    ASSUME NEW E, NEW w \in Seq(E), NEW num,
           \E i \in DOMAIN w : w[i].num = num
    PROVE  Occurrences(w, num) # <<>>
<1> DEFINE V == {x.val : x \in E}
           G == {u \in Seq(E) : (\E i \in DOMAIN u : u[i].num = num) => Occurrences(u, num) # <<>>}
<1>1. <<>> \in G
  OBVIOUS
<1>2. ASSUME NEW u \in Seq(E), NEW e \in E, u \in G PROVE Append(u, e) \in G
  <2> DEFINE v == Append(u, e)
             n == Len(u)
             all == Occurrences(u, num)
  <2>1. /\ v \in Seq(E) /\ DOMAIN v = 1 .. n + 1 /\ DOMAIN u = 1 .. n /\ n \in Nat
        /\ v[n + 1] = e /\ \A i \in 1 .. n : v[i] = u[i]
    BY AppendProperties
  <2>2. Occurrences(v, num) = all \o OfNumber(e, num)
    BY OccurrencesAppend
  <2>3. all \in Seq(V)
    BY OccurrencesTyped
  <2> HIDE DEF v, n, V
  <2> SUFFICES ASSUME NEW i \in DOMAIN v, v[i].num = num
               PROVE  Occurrences(v, num) # <<>>
    BY <2>1 DEF v
  <2>4. CASE e.num = num
    <3>1. all \o <<e.val>> # <<>>
      <4> HIDE DEF all
      <4>1. all \o <<e.val>> = Append(all, e.val)
        BY <2>3
      <4> QED BY <2>3, <4>1
    <3> QED BY <2>2, <2>4, <3>1 DEF OfNumber
  <2>5. CASE e.num # num
    <3>1. i \in DOMAIN u /\ u[i].num = num
      BY <2>1, <2>5
    <3>2. all # <<>>
      BY <1>2, <3>1
    <3>3. all \o <<>> = all
      BY <2>3, ConcatEmptySeq
    <3>4. OfNumber(e, num) = <<>>
      BY <2>5 DEF OfNumber
    <3> QED BY <2>2, <3>2, <3>3, <3>4
  <2> QED BY <2>4, <2>5
<1> HIDE DEF G
<1>3. Seq(E) \subseteq G
  BY <1>1, <1>2, SeqInduct
<1> QED BY <1>3 DEF G

-----------------------------------------------------------------------------
(* Types and messages *)

(* The numbers and the names of a type's fields differ, and their defaults  *)
(* are what the rules say.                                                  *)
EnumNames(names) ==
    /\ names \in Seq(ToSet(names)) /\ "UNKNOWN" \notin ToSet(names)
    /\ \A i, j \in DOMAIN names : names[i] = names[j] => i = j
IsEnum(f) == f.rule \in {"implicit", "optional"} /\ f.type.tag = "enum"
Field(f) ==
    /\ f.rule \in {"implicit", "optional", "message", "repeated"}
    /\ f.rule \in {"optional", "message"} => f.zero = Undefined
    /\ f.rule = "repeated" => f.zero = <<>>
    /\ f.rule = "implicit" => f.zero # Undefined
    /\ IsEnum(f) => EnumNames(f.type.names) /\ (f.zero = Undefined \/ f.zero \in Int)
Type(T) ==
    /\ T \in Seq(ToSet(T))
    /\ \A i, j \in DOMAIN T : T[i].num = T[j].num \/ T[i].name = T[j].name => i = j
    /\ \A i \in DOMAIN T : Field(T[i])

(* A message of a type, and a part of one.                                  *)
ScalarFits(f, v) ==
    /\ f.rule = "implicit" => v # Undefined
    /\ IsEnum(f) /\ v # Undefined => v \in Int
Fits(f, v) ==
    /\ f.rule = "repeated" => v \in Seq(ToSet(v)) /\ \A i \in DOMAIN v : SubIs(f.type, v[i])
    /\ f.rule = "message" /\ v # Undefined => SubIs(f.type, v)
    /\ ScalarFits(f, v)
PartFits(f, v) ==
    /\ f.rule = "repeated" => v \in Seq(ToSet(v)) /\ \A i \in DOMAIN v : SubPartial(f.type, v[i])
    /\ f.rule = "message" => SubPartial(f.type, v)
    /\ ScalarFits(f, v)

Is(T, m) ==
    /\ Type(T)
    /\ m = [name \in Names(T) |-> m[name]]
    /\ \A i \in DOMAIN T : Fits(T[i], m[T[i].name])
Partial(T, o) ==
    /\ Type(T)
    /\ \A i \in DOMAIN T : Given(o, T[i].name) => PartFits(T[i], o[T[i].name])

LEMMA FieldFound ==
    ASSUME NEW T, Type(T), NEW i \in DOMAIN T
    PROVE  T[i].name \in Names(T) /\ FieldOf(T, T[i].name) = T[i]
<1>1. \A j \in DOMAIN T : T[j].name = T[i].name <=> j = i
  BY DEF Type
<1>2. (CHOOSE j \in DOMAIN T : T[j].name = T[i].name) = i
  BY <1>1
<1> QED BY <1>2 DEF FieldOf, Names

-----------------------------------------------------------------------------
(* encode and decode *)

(* What is written of a field. *)
Vals(f, v) ==
    CASE f.rule = "repeated" -> [i \in DOMAIN v |-> SubEncode(f.type, v[i])]
      [] f.rule # "repeated" /\ v = f.zero -> <<>>
      [] f.rule = "message" /\ v # f.zero -> <<SubEncode(f.type, v)>>
      [] OTHER -> <<v>>

LEMMA FieldWritten ==
    ASSUME NEW f, NEW v, Fits(f, v)
    PROVE  /\ EncodeField(f, v) \in Seq(ToSet(EncodeField(f, v)))
           /\ Occurrences(EncodeField(f, v), f.num) = Vals(f, v)
           /\ \A num : num # f.num => Occurrences(EncodeField(f, v), num) = <<>>
<1> DEFINE p == EncodeField(f, v)
<1>1. CASE f.rule = "repeated"
  <2>1. p = [i \in DOMAIN v |-> [num |-> f.num, val |-> SubEncode(f.type, v[i])]]
    BY <1>1 DEF EncodeField
  <2>2. PICK n \in Nat : DOMAIN v = 1 .. n
    <3> DEFINE S == ToSet(v)
    <3>1. v \in Seq(S)
      BY <1>1 DEF Fits
    <3> HIDE DEF S
    <3> QED BY <3>1
  <2> HIDE DEF p
  <2>3. /\ DOMAIN p = 1 .. n
        /\ \A i \in DOMAIN p : p[i].num = f.num /\ p[i].val = SubEncode(f.type, v[i])
    BY <2>1, <2>2
  <2>4. p \in Seq(ToSet(p))
    <3> DEFINE S == ToSet(p)
    <3>1. p = [i \in 1 .. n |-> p[i]] /\ \A i \in 1 .. n : p[i] \in S
      BY <2>1, <2>3 DEF ToSet
    <3> HIDE DEF S
    <3>2. p \in [1 .. n -> S]
      BY <3>1
    <3>3. p \in Seq(S)
      BY <3>2
    <3> QED BY <3>3 DEF S
  <2>5. Occurrences(p, f.num) = [i \in DOMAIN p |-> p[i].val]
    BY <2>3, <2>4, OccurrencesSame
  <2>6. [i \in DOMAIN p |-> p[i].val] = Vals(f, v)
    BY <1>1, <2>2, <2>3 DEF Vals
  <2>7. \A num : num # f.num => Occurrences(p, num) = <<>>
    BY <2>3, <2>4, OccurrencesNone
  <2> QED BY <2>4, <2>5, <2>6, <2>7 DEF p
<1>2. CASE f.rule # "repeated" /\ v = f.zero
  <2>1. p = <<>> /\ Vals(f, v) = <<>>
    BY <1>2 DEF EncodeField, Vals
  <2> QED BY <2>1, OccurrencesEmpty
<1>3. CASE f.rule # "repeated" /\ v # f.zero
  <2> DEFINE x == IF f.rule = "message" THEN SubEncode(f.type, v) ELSE v
             e == [num |-> f.num, val |-> x]
  <2>1. p = <<e>> /\ Vals(f, v) = <<x>>
    BY <1>3 DEF EncodeField, Vals
  <2>2. e.num = f.num /\ e.val = x
    OBVIOUS
  <2> HIDE DEF x, e, p
  <2>3. Occurrences(<<e>>, f.num) = <<x>> /\ \A num : num # f.num => Occurrences(<<e>>, num) = <<>>
    BY <2>2, OccurrencesOne DEF OfNumber
  <2>4. <<e>> \in Seq(ToSet(<<e>>))
    BY DEF ToSet
  <2> QED BY <2>1, <2>3, <2>4 DEF p
<1> QED BY <1>1, <1>2, <1>3

(* Every field is found in what encode writes, apart from the others.       *)
LEMMA Written ==
    ASSUME NEW T, NEW m, Is(T, m)
    PROVE  /\ \E E : Encode(T, m) \in Seq(E)
           /\ \A i \in DOMAIN T : Occurrences(Encode(T, m), T[i].num) = Vals(T[i], m[T[i].name])
           /\ \A num : (\A i \in DOMAIN T : T[i].num # num) => Occurrences(Encode(T, m), num) = <<>>
<1> DEFINE part(i) == EncodeField(T[i], m[T[i].name])
           parts == [i \in DOMAIN T |-> part(i)]
           E == UNION {ToSet(part(i)) : i \in DOMAIN T}
<1>1. \A i \in DOMAIN T : /\ part(i) \in Seq(ToSet(part(i)))
                          /\ Occurrences(part(i), T[i].num) = Vals(T[i], m[T[i].name])
                          /\ \A num : num # T[i].num => Occurrences(part(i), num) = <<>>
  BY FieldWritten DEF Is
<1> HIDE DEF part
<1>2. \A i \in DOMAIN T : part(i) \in Seq(E)
  <2> TAKE i \in DOMAIN T
  <2> DEFINE S == ToSet(part(i))
  <2>1. part(i) \in Seq(S) /\ S \subseteq E
    BY <1>1
  <2> HIDE DEF S, E
  <2> QED BY <2>1, SeqMonotonic
<1> HIDE DEF E
<1>3. PICK n \in Nat : DOMAIN T = 1 .. n
  <2> DEFINE S == ToSet(T)
  <2>1. T \in Seq(S)
    BY DEF Is, Type
  <2> HIDE DEF S
  <2> QED BY <2>1
<1>4. parts \in Seq(Seq(E)) /\ DOMAIN parts = DOMAIN T
  <2> DEFINE S == Seq(E)
  <2>1. \A i \in 1 .. n : part(i) \in S
    BY <1>2, <1>3
  <2> HIDE DEF S
  <2>2. parts \in [1 .. n -> S]
    BY <1>3, <2>1
  <2>3. parts \in Seq(S)
    BY <2>2
  <2> QED BY <1>3, <2>3 DEF S
<1>5. Encode(T, m) = FlattenSeq(parts)
  BY DEF Encode, part
<1>6. \A i \in DOMAIN T : parts[i] = part(i)
  OBVIOUS
<1> HIDE DEF parts
<1>7. ASSUME NEW i \in DOMAIN T
      PROVE  Occurrences(FlattenSeq(parts), T[i].num) = Vals(T[i], m[T[i].name])
  <2>1. \A j \in DOMAIN parts : j # i => Occurrences(parts[j], T[i].num) = <<>>
    BY <1>1, <1>4, <1>6 DEF Is, Type
  <2>2. Occurrences(FlattenSeq(parts), T[i].num) = Occurrences(parts[i], T[i].num)
    BY <1>4, <2>1, OccurrencesOnly
  <2> QED BY <1>1, <1>6, <2>2
<1>8. ASSUME NEW num, \A i \in DOMAIN T : T[i].num # num
      PROVE  Occurrences(FlattenSeq(parts), num) = <<>>
  <2>1. \A j \in DOMAIN parts : Occurrences(parts[j], num) = <<>>
    BY <1>1, <1>4, <1>6, <1>8
  <2>2. CASE DOMAIN T = {}
    <3>1. parts = <<>>
      BY <1>4, <2>2
    <3> QED BY <3>1, FlatEmpty, OccurrencesEmpty
  <2>3. CASE DOMAIN T # {}
    <3>1. PICK k \in DOMAIN T : TRUE
      BY <2>3
    <3>2. Occurrences(FlattenSeq(parts), num) = Occurrences(parts[k], num)
      BY <1>4, <2>1, <3>1, OccurrencesOnly
    <3> QED BY <1>4, <2>1, <3>1, <3>2
  <2> QED BY <2>2, <2>3
<1>9. FlattenSeq(parts) \in Seq(E)
  <2>1. CASE DOMAIN T = {}
    <3>1. parts = <<>> /\ <<>> \in Seq(E)
      BY <1>4, <2>1
    <3> QED BY <3>1, FlatEmpty
  <2>2. CASE DOMAIN T # {}
    <3>1. PICK p \in Seq(E) : TRUE
      BY <1>2, <2>2
    <3> QED BY <1>4, <3>1, FlatAppend
  <2> QED BY <2>1, <2>2
<1> QED BY <1>5, <1>7, <1>8, <1>9

(* A field reads the same in an encoding that shows the same of it: all of  *)
(* a repeated field, the last of another.                                   *)
Shows(f, all, vals) ==
    IF f.rule = "repeated" THEN all = vals
    ELSE /\ all = <<>> <=> vals = <<>>
         /\ all # <<>> => Last(all) = Last(vals)

(* Whatever encoding shows of every field what encode writes, is decoded    *)
(* to the message, if the messages in it are.                               *)
THEOREM Decoded ==
    ASSUME NEW T, NEW m, NEW w, Is(T, m),
           \A i \in DOMAIN T : Shows(T[i], Occurrences(w, T[i].num), Vals(T[i], m[T[i].name])),
           \A S, x : SubIs(S, x) => SubDecode(S, SubEncode(S, x)) = x
    PROVE  Decode(T, w) = m
<1>1. ASSUME NEW i \in DOMAIN T
      PROVE  DecodeField(T[i], w) = m[T[i].name]
  <2> DEFINE f == T[i]
             v == m[f.name]
             all == Occurrences(w, f.num)
  <2>0. Shows(f, all, Vals(f, v)) /\ Fits(f, v) /\ Field(f)
    BY DEF Is, Type
  <2> HIDE DEF f, v, all
  <2>1. CASE f.rule = "repeated"
    <3>1. all = [j \in DOMAIN v |-> SubEncode(f.type, v[j])]
      BY <2>0, <2>1 DEF Shows, Vals
    <3>2. \A j \in DOMAIN v : SubDecode(f.type, SubEncode(f.type, v[j])) = v[j]
      BY <2>0, <2>1 DEF Fits
    <3>3. v = [j \in DOMAIN v |-> v[j]]
      <4> DEFINE S == ToSet(v)
      <4>1. v \in Seq(S)
        BY <2>0, <2>1 DEF Fits
      <4> HIDE DEF S
      <4> QED BY <4>1
    <3>4. DecodeField(f, w) = [j \in DOMAIN all |-> SubDecode(f.type, all[j])]
      BY <2>1 DEF DecodeField, all
    <3>5. DecodeField(f, w) = [j \in DOMAIN v |-> SubDecode(f.type, SubEncode(f.type, v[j]))]
      BY <3>1, <3>4
    <3> QED BY <3>2, <3>3, <3>5 DEF v, f
  <2>2. CASE f.rule # "repeated" /\ v = f.zero
    <3>1. all = <<>>
      BY <2>0, <2>2 DEF Shows, Vals
    <3>2. DecodeField(f, w) = f.zero
      BY <2>2, <3>1 DEF DecodeField, all
    <3> QED BY <2>2, <3>2 DEF v, f
  <2>3. CASE f.rule # "repeated" /\ v # f.zero
    <3> DEFINE x == IF f.rule = "message" THEN SubEncode(f.type, v) ELSE v
    <3>1. Vals(f, v) = <<x>>
      BY <2>3 DEF Vals
    <3> HIDE DEF x
    <3>2. all # <<>> /\ Last(all) = x
      <4>1. <<x>> # <<>> /\ Last(<<x>>) = x
        BY DEF Last
      <4> QED BY <2>0, <2>3, <3>1, <4>1 DEF Shows
    <3>3. DecodeField(f, w) = IF f.rule = "message" THEN SubDecode(f.type, x) ELSE x
      BY <2>3, <3>2 DEF DecodeField, Chosen, all
    <3>4. f.rule = "message" => SubDecode(f.type, x) = v
      BY <2>0, <2>3 DEF Fits, Field, x
    <3> QED BY <3>3, <3>4 DEF x, v, f
  <2> QED BY <2>1, <2>2, <2>3
<1>2. ASSUME NEW name \in Names(T)
      PROVE  DecodeField(FieldOf(T, name), w) = m[name]
  <2>1. PICK i \in DOMAIN T : name = T[i].name
    BY DEF Names
  <2>2. FieldOf(T, name) = T[i]
    BY <2>1, FieldFound DEF Is
  <2> QED BY <1>1, <2>1, <2>2
<1>3. m = [name \in Names(T) |-> m[name]]
  BY DEF Is
<1> QED BY <1>2, <1>3 DEF Decode

(* What encode writes, decode gives back.                                   *)
THEOREM DecodedAsEncoded ==
    ASSUME NEW T, NEW m, Is(T, m),
           \A S, x : SubIs(S, x) => SubDecode(S, SubEncode(S, x)) = x
    PROVE  Decode(T, Encode(T, m)) = m
<1>1. \A i \in DOMAIN T :
         Shows(T[i], Occurrences(Encode(T, m), T[i].num), Vals(T[i], m[T[i].name]))
  BY Written DEF Shows
<1> QED BY <1>1, Decoded

(* What other encoders may do does not change what is read. *)
LEMMA OccurrencesBefore ==
    ASSUME NEW E, NEW w \in Seq(E), NEW e, NEW num
    PROVE  Occurrences(<<e>> \o w, num) = OfNumber(e, num) \o Occurrences(w, num)
<1> DEFINE F == E \cup {e}
<1>1. w \in Seq(F) /\ e \in F
  <2>1. E \subseteq F /\ e \in F
    OBVIOUS
  <2> HIDE DEF F
  <2> QED BY <2>1, SeqMonotonic
<1> HIDE DEF F
<1>2. <<e>> \in Seq(F)
  BY <1>1
<1>3. Occurrences(<<e>> \o w, num) = OfNumber(e, num) \o Occurrences(w, num)
  <2>1. Occurrences(<<e>> \o w, num) = Occurrences(<<e>>, num) \o Occurrences(w, num)
    <3>1. \A u, v \in Seq(F) : Occurrences(u \o v, num) = Occurrences(u, num) \o Occurrences(v, num)
      BY OccurrencesConcat
    <3> QED BY <1>1, <1>2, <3>1, Zenon
  <2> QED BY <2>1, OccurrencesOne, Zenon
<1> QED BY <1>3

(* Where an occurrence before the others, or after them, is found. *)
LEMMA OccurrencesFirst ==
    ASSUME NEW E, NEW w \in Seq(E), NEW e, NEW num
    PROVE  /\ Occurrences(<<e>> \o w, num) = OfNumber(e, num) \o Occurrences(w, num)
           /\ Occurrences(Append(w, e), num) = Occurrences(w, num) \o OfNumber(e, num)
           /\ \E V : Occurrences(w, num) \in Seq(V) /\ OfNumber(e, num) \in Seq(V)
<1> DEFINE F == E \cup {e}
           V == {x.val : x \in F}
<1>1. w \in Seq(F) /\ e \in F
  <2>1. E \subseteq F /\ e \in F
    OBVIOUS
  <2> HIDE DEF F
  <2> QED BY <2>1, SeqMonotonic
<1> HIDE DEF F
<1>3. Occurrences(<<e>> \o w, num) = OfNumber(e, num) \o Occurrences(w, num)
  BY OccurrencesBefore
<1>4. /\ Occurrences(Append(w, e), num) = Occurrences(w, num) \o OfNumber(e, num)
      /\ Occurrences(w, num) \in Seq(V)
  BY <1>1, OccurrencesAppend
<1>5. OfNumber(e, num) \in Seq(V)
  <2>1. e.val \in V
    BY <1>1
  <2> HIDE DEF V
  <2> QED BY <2>1 DEF OfNumber
<1> QED BY <1>3, <1>4, <1>5

(* A field of another number changes nothing. *)
LEMMA ShownBesideUnknown ==
    ASSUME NEW E, NEW w \in Seq(E), NEW e, NEW num, e.num # num
    PROVE  Occurrences(Append(w, e), num) = Occurrences(w, num)
<1> DEFINE all == Occurrences(w, num)
<1>1. PICK V : all \in Seq(V)
  BY OccurrencesFirst
<1>2. Occurrences(Append(w, e), num) = all \o <<>>
  <2>1. Occurrences(Append(w, e), num) = all \o OfNumber(e, num)
    <3>1. \A x : /\ Occurrences(<<x>> \o w, num) = OfNumber(x, num) \o Occurrences(w, num)
                 /\ Occurrences(Append(w, x), num) = Occurrences(w, num) \o OfNumber(x, num)
                 /\ \E U : Occurrences(w, num) \in Seq(U) /\ OfNumber(x, num) \in Seq(U)
      BY OccurrencesFirst
    <3> QED BY <3>1, Zenon
  <2>2. OfNumber(e, num) = <<>>
    BY DEF OfNumber
  <2> QED BY <2>1, <2>2, Zenon
<1> HIDE DEF all
<1>3. all \o <<>> = all
  BY <1>1, ConcatEmptySeq
<1> QED BY <1>2, <1>3 DEF all

(* Nor does an earlier occurrence of a field that is there and is not a     *)
(* repeated one.                                                            *)
LEMMA ShownAfterOlder ==
    ASSUME NEW E, NEW w \in Seq(E), NEW e, NEW f, NEW vals,
           f.rule # "repeated", Shows(f, Occurrences(w, f.num), vals),
           e.num = f.num => Occurrences(w, f.num) # <<>>
    PROVE  Shows(f, Occurrences(<<e>> \o w, f.num), vals)
<1> DEFINE all == Occurrences(w, f.num)
           first == OfNumber(e, f.num)
<1>0. ASSUME NEW num
      PROVE  /\ \E V : Occurrences(w, num) \in Seq(V) /\ OfNumber(e, num) \in Seq(V)
             /\ Occurrences(<<e>> \o w, num) = OfNumber(e, num) \o Occurrences(w, num)
  <2>1. \E V : Occurrences(w, num) \in Seq(V) /\ OfNumber(e, num) \in Seq(V)
    BY OccurrencesFirst, Zenon
  <2>2. Occurrences(<<e>> \o w, num) = OfNumber(e, num) \o Occurrences(w, num)
    BY OccurrencesBefore
  <2> QED BY <2>1, <2>2
<1>1. PICK V : all \in Seq(V) /\ first \in Seq(V)
  <2>1. \E V : Occurrences(w, f.num) \in Seq(V) /\ OfNumber(e, f.num) \in Seq(V)
    BY <1>0, Zenon
  <2> QED BY <2>1, Zenon
<1>2. Occurrences(<<e>> \o w, f.num) = first \o all
  BY <1>0, Zenon
<1>3. CASE e.num # f.num
  <2>1. first = <<>>
    BY <1>3 DEF OfNumber
  <2> HIDE DEF first, all
  <2>2. first \o all = all
    BY <1>1, <2>1, ConcatEmptySeq
  <2> QED BY <1>2, <2>2 DEF all
<1>4. CASE e.num = f.num
  <2>1. all # <<>>
    BY <1>4
  <2> HIDE DEF first, all
  <2>2. first \o all # <<>> /\ Last(first \o all) = Last(all)
    <3>1. /\ first \o all \in Seq(V) /\ Len(first \o all) = Len(first) + Len(all)
          /\ \A i \in 1 .. Len(first) + Len(all) :
                (first \o all)[i] = IF i <= Len(first) THEN first[i] ELSE all[i - Len(first)]
      BY <1>1, ConcatProperties
    <3>2. Len(first) \in Nat /\ Len(all) \in Nat /\ Len(all) # 0
      BY <1>1, <2>1
    <3>3. LET n == Len(first) + Len(all) IN
             n \in 1 .. n /\ ~(n <= Len(first)) /\ n - Len(first) = Len(all)
      BY <3>2
    <3>4. (first \o all)[Len(first) + Len(all)] = all[Len(all)]
      BY <3>1, <3>3
    <3>5. first \o all # <<>>
      <4>1. Len(first \o all) # 0
        BY <3>1, <3>2
      <4> HIDE DEF first, all
      <4> QED BY <3>1, <4>1
    <3> QED BY <3>1, <3>4, <3>5 DEF Last
  <2> QED BY <1>2, <2>1, <2>2 DEF Shows, all
<1> QED BY <1>3, <1>4

(* Nor does another order, if no field is there twice. *)
LEMMA ShownInAnotherOrder ==
    ASSUME NEW E, NEW w \in Seq(E), w # <<>>, NEW num,
           Len(Occurrences(w, num)) <= 1
    PROVE  Occurrences(Append(Tail(w), Head(w)), num) = Occurrences(w, num)
<1> DEFINE e == Head(w)
           t == Tail(w)
           all == Occurrences(t, num)
           first == OfNumber(e, num)
<1>1. t \in Seq(E) /\ w = <<e>> \o t
  <2>1. /\ e \in E /\ t \in Seq(E) /\ Len(t) = Len(w) - 1 /\ Len(w) \in Nat
        /\ e = w[1] /\ \A i \in 1 .. Len(t) : t[i] = w[i + 1]
    BY HeadTailProperties
  <2> HIDE DEF e, t
  <2> DEFINE v == <<e>> \o t
  <2>2. /\ v \in Seq(E) /\ Len(v) = 1 + Len(t)
        /\ \A i \in 1 .. 1 + Len(t) : v[i] = IF i <= 1 THEN <<e>>[i] ELSE t[i - 1]
    <3>1. <<e>> \in Seq(E) /\ Len(<<e>>) = 1
      BY <2>1
    <3> QED BY <2>1, <3>1, ConcatProperties
  <2> HIDE DEF v
  <2>3. ASSUME NEW i \in 1 .. Len(w) PROVE w[i] = v[i]
    <3>1. CASE i = 1
      BY <2>1, <2>2, <3>1
    <3>2. CASE i # 1
      <4>1. i - 1 \in 1 .. Len(t) /\ ~(i <= 1) /\ i \in 1 .. 1 + Len(t) /\ (i - 1) + 1 = i
        BY <2>1, <3>2
      <4> QED BY <2>1, <2>2, <4>1
    <3> QED BY <3>1, <3>2
  <2>4. w = v
    BY <2>1, <2>2, <2>3, SeqEqual
  <2> QED BY <2>1, <2>4 DEF v
<1> HIDE DEF e, t
<1>2. /\ Occurrences(w, num) = first \o all /\ Occurrences(Append(t, e), num) = all \o first
      /\ \E V : all \in Seq(V) /\ first \in Seq(V)
  <2>1. \A x : /\ Occurrences(<<x>> \o t, num) = OfNumber(x, num) \o Occurrences(t, num)
               /\ Occurrences(Append(t, x), num) = Occurrences(t, num) \o OfNumber(x, num)
               /\ \E V : Occurrences(t, num) \in Seq(V) /\ OfNumber(x, num) \in Seq(V)
    BY <1>1, OccurrencesFirst
  <2> QED BY <1>1, <2>1, Zenon
<1> HIDE DEF first, all
<1>3. PICK V : all \in Seq(V) /\ first \in Seq(V)
  BY <1>2
<1>4. Len(first) + Len(all) <= 1 /\ Len(first) \in Nat /\ Len(all) \in Nat
  <2>1. Len(first \o all) = Len(first) + Len(all)
    BY <1>3, ConcatProperties
  <2> QED BY <1>2, <1>3, <2>1
<1>5. first = <<>> \/ all = <<>>
  BY <1>3, <1>4
<1>6. /\ first \o <<>> = first /\ <<>> \o first = first
      /\ all \o <<>> = all /\ <<>> \o all = all
  BY <1>3, ConcatEmptySeq
<1> QED BY <1>2, <1>5, <1>6 DEF e, t

(* What another implementation makes of an encoding: its first field last,  *)
(* a field of an unknown number, an earlier occurrence of a field that is   *)
(* there.                                                                   *)
Another(T, w, b) ==
    \/ b = w
    \/ w # <<>> /\ b = Append(Tail(w), Head(w))
    \/ \E e : b = Append(w, e) /\ \A i \in DOMAIN T : T[i].num # e.num
    \/ \E e : b = <<e>> \o w /\ \E i \in DOMAIN w : w[i].num = e.num

(* From that too decode gives back the message, of a type without repeated  *)
(* fields: each of its fields is the last that came.                        *)
THEOREM DecodedFromAnother ==
    ASSUME NEW T, NEW m, Is(T, m), NEW b, Another(T, Encode(T, m), b),
           \A i \in DOMAIN T : T[i].rule # "repeated",
           \A S, x : SubIs(S, x) => SubDecode(S, SubEncode(S, x)) = x
    PROVE  Decode(T, b) = m
<1> DEFINE w == Encode(T, m)
           vals(i) == Vals(T[i], m[T[i].name])
<1>1. PICK E : w \in Seq(E)
  BY Written
<1>2. \A i \in DOMAIN T : Occurrences(w, T[i].num) = vals(i)
  BY Written
<1>3. Another(T, w, b)
  OBVIOUS
<1> HIDE DEF w
<1>4. ASSUME NEW i \in DOMAIN T PROVE Shows(T[i], Occurrences(b, T[i].num), vals(i))
  <2> DEFINE num == T[i].num
  <2>1. Occurrences(w, num) = vals(i) /\ T[i].rule # "repeated"
    BY <1>2
  <2>2. Shows(T[i], Occurrences(w, num), vals(i))
    BY <2>1 DEF Shows
  <2>3. Len(vals(i)) <= 1
    BY <2>1 DEF Vals
  <2> HIDE DEF vals
  <2>4. CASE b = w
    BY <2>2, <2>4
  <2>5. CASE w # <<>> /\ b = Append(Tail(w), Head(w))
    <3>1. Occurrences(b, num) = Occurrences(w, num)
      BY <1>1, <2>1, <2>3, <2>5, ShownInAnotherOrder
    <3> QED BY <2>2, <3>1
  <2>6. ASSUME NEW e, b = Append(w, e), \A j \in DOMAIN T : T[j].num # e.num
        PROVE  Shows(T[i], Occurrences(b, num), vals(i))
    <3>1. Occurrences(b, num) = Occurrences(w, num)
      BY <1>1, <2>6, ShownBesideUnknown
    <3> QED BY <2>2, <3>1
  <2>7. ASSUME NEW e, b = <<e>> \o w, \E j \in DOMAIN w : w[j].num = e.num
        PROVE  Shows(T[i], Occurrences(b, num), vals(i))
    <3>1. e.num = num => Occurrences(w, num) # <<>>
      BY <1>1, <2>7, OccurrencesSome
    <3> QED BY <1>1, <2>1, <2>2, <2>7, <3>1, ShownAfterOlder
  <2> QED BY <1>3, <2>4, <2>5, <2>6, <2>7 DEF Another
<1> QED BY <1>4, Decoded

-----------------------------------------------------------------------------
(* toJSON, fromJSON and fromPartial *)

(* What JSON keeps of a message: all but the numbers of enum values that    *)
(* have no name.                                                            *)
KeptField(f, v) ==
    CASE f.rule = "repeated" -> [i \in DOMAIN v |-> SubKept(f.type, v[i])]
      [] f.rule = "message" /\ v # Undefined -> SubKept(f.type, v)
      [] IsEnum(f) /\ v # Undefined /\ v + 1 \notin DOMAIN f.type.names -> Unrecognized
      [] OTHER -> v
Kept(T, m) == [name \in Names(T) |-> KeptField(FieldOf(T, name), m[name])]

LEMMA EnumKept ==
    ASSUME NEW names, EnumNames(names), NEW v \in Int
    PROVE  EnumFromJSON(names, EnumToJSON(names, v))
              = IF v + 1 \in DOMAIN names THEN v ELSE Unrecognized
<1>1. CASE v + 1 \in DOMAIN names
  <2>1. EnumToJSON(names, v) = names[v + 1] /\ names[v + 1] \in ToSet(names)
    BY <1>1 DEF EnumToJSON, ToSet
  <2>2. \A i \in DOMAIN names : names[i] = names[v + 1] <=> i = v + 1
    BY <1>1 DEF EnumNames
  <2>3. (CHOOSE i \in DOMAIN names : names[i] = names[v + 1]) = v + 1
    BY <1>1, <2>2
  <2>4. EnumFromJSON(names, names[v + 1]) = (CHOOSE i \in DOMAIN names : names[i] = names[v + 1]) - 1
    BY <2>1 DEF EnumFromJSON
  <2>5. (v + 1) - 1 = v
    OBVIOUS
  <2> QED BY <1>1, <2>1, <2>3, <2>4, <2>5
<1>2. CASE v + 1 \notin DOMAIN names
  BY <1>2 DEF EnumFromJSON, EnumToJSON, EnumNames
<1> QED BY <1>1, <1>2

(* fromJSON of what toJSON says.                                            *)
THEOREM KeptByJSON ==
    ASSUME NEW T, NEW m, Is(T, m),
           \A S, x : SubIs(S, x) => SubFromJSON(S, SubToJSON(S, x)) = SubKept(S, x)
    PROVE  FromJSON(T, ToJSON(T, m)) = Kept(T, m)
<1> DEFINE o == ToJSON(T, m)
           D == {n \in Names(T) : FieldOf(T, n).rule = "repeated" \/ m[n] # Undefined}
           text(name) ==
               LET f == FieldOf(T, name) IN
               CASE f.rule = "repeated" -> [i \in DOMAIN m[name] |-> SubToJSON(f.type, m[name][i])]
                 [] f.rule = "message" -> SubToJSON(f.type, m[name])
                 [] OTHER -> ScalarToJSON(f.type, m[name])
           back(name) ==
               LET f == FieldOf(T, name) IN
               CASE name \notin DOMAIN o -> f.zero
                 [] name \in DOMAIN o /\ f.rule = "repeated" ->
                       [i \in DOMAIN o[name] |-> SubFromJSON(f.type, o[name][i])]
                 [] name \in DOMAIN o /\ f.rule = "message" -> SubFromJSON(f.type, o[name])
                 [] OTHER -> ScalarFromJSON(f.type, o[name])
<1>1. o = [name \in D |-> text(name)]
  BY DEF ToJSON
<1>2. FromJSON(T, o) = [name \in Names(T) |-> back(name)]
  BY DEF FromJSON
<1>3. DOMAIN o = D /\ \A name \in D : o[name] = text(name)
  BY <1>1
<1> HIDE DEF o
<1>4. ASSUME NEW name \in Names(T) PROVE back(name) = KeptField(FieldOf(T, name), m[name])
  <2>1. PICK i \in DOMAIN T : name = T[i].name
    BY DEF Names
  <2> DEFINE f == FieldOf(T, name)
             v == m[name]
  <2>2. f = T[i]
    BY <2>1, FieldFound DEF Is
  <2>3. Fits(f, v) /\ Field(f)
    BY <2>1, <2>2 DEF Is, Type
  <2>4. name \in D <=> f.rule = "repeated" \/ v # Undefined
    OBVIOUS
  <2>5. CASE f.rule = "repeated"
    <3>1. o[name] = [j \in DOMAIN v |-> SubToJSON(f.type, v[j])]
      BY <1>3, <2>4, <2>5
    <3>2. back(name) = [j \in DOMAIN o[name] |-> SubFromJSON(f.type, o[name][j])]
      BY <1>3, <2>4, <2>5
    <3>3. \A j \in DOMAIN v : SubFromJSON(f.type, SubToJSON(f.type, v[j])) = SubKept(f.type, v[j])
      BY <2>3, <2>5 DEF Fits
    <3> HIDE DEF f, v, back
    <3>4. back(name) = [j \in DOMAIN v |-> SubKept(f.type, v[j])]
      BY <3>1, <3>2, <3>3
    <3>5. KeptField(f, v) = [j \in DOMAIN v |-> SubKept(f.type, v[j])]
      BY <2>5 DEF KeptField, IsEnum
    <3> QED BY <3>4, <3>5 DEF f, v
  <2>6. CASE f.rule # "repeated" /\ v = Undefined
    <3>1. back(name) = f.zero
      BY <1>3, <2>4, <2>6
    <3>2. f.zero = Undefined
      BY <2>3, <2>6 DEF Fits, Field, ScalarFits
    <3> HIDE DEF f, v, back
    <3>3. KeptField(f, v) = v
      BY <2>6 DEF KeptField
    <3> QED BY <2>6, <3>1, <3>2, <3>3 DEF f, v
  <2>7. CASE f.rule = "message" /\ v # Undefined
    <3>1. o[name] = SubToJSON(f.type, v)
      BY <1>3, <2>4, <2>7
    <3>2. back(name) = SubFromJSON(f.type, o[name])
      BY <1>3, <2>4, <2>7
    <3> HIDE DEF f, v, back
    <3>3. back(name) = SubKept(f.type, v)
      BY <2>3, <2>7, <3>1, <3>2 DEF Fits
    <3>4. KeptField(f, v) = SubKept(f.type, v)
      BY <2>7 DEF KeptField, IsEnum
    <3> QED BY <3>3, <3>4 DEF f, v
  <2>8. CASE f.rule \in {"implicit", "optional"} /\ v # Undefined
    <3>1. o[name] = ScalarToJSON(f.type, v)
      BY <1>3, <2>4, <2>8
    <3>2. back(name) = ScalarFromJSON(f.type, o[name])
      BY <1>3, <2>4, <2>8
    <3> HIDE DEF f, v, back
    <3>3. CASE f.type.tag = "enum"
      <4>1. v \in Int /\ EnumNames(f.type.names) /\ IsEnum(f)
        BY <2>3, <2>8, <3>3 DEF Fits, ScalarFits, Field, IsEnum
      <4>2. back(name) = EnumFromJSON(f.type.names, EnumToJSON(f.type.names, v))
        BY <3>1, <3>2, <3>3 DEF ScalarToJSON, ScalarFromJSON
      <4>3. KeptField(f, v) = IF v + 1 \in DOMAIN f.type.names THEN v ELSE Unrecognized
        BY <2>8, <4>1 DEF KeptField
      <4> QED BY <4>1, <4>2, <4>3, EnumKept DEF f, v
    <3>4. CASE f.type.tag # "enum"
      <4>1. back(name) = v
        BY <3>1, <3>2, <3>4 DEF ScalarToJSON, ScalarFromJSON, Base64, FromBase64
      <4>2. KeptField(f, v) = v
        BY <2>8, <3>4 DEF KeptField, IsEnum
      <4> QED BY <4>1, <4>2 DEF f, v
    <3> QED BY <3>3, <3>4
  <2>9. f.rule \in {"implicit", "optional", "message", "repeated"}
    BY <2>3 DEF Field
  <2> QED BY <2>5, <2>6, <2>7, <2>8, <2>9
<1> HIDE DEF back
<1> QED BY <1>2, <1>4 DEF Kept, o

(* fromPartial completes a part of a message.                               *)
THEOREM Completed ==
    ASSUME NEW T, NEW o, Partial(T, o),
           \A S, x : SubPartial(S, x) => SubIs(S, SubFromPartial(S, x))
    PROVE  Is(T, FromPartial(T, o))
<1> DEFINE m == FromPartial(T, o)
           done(name) ==
               LET f == FieldOf(T, name) IN
               CASE ~Given(o, name) -> f.zero
                 [] Given(o, name) /\ f.rule = "repeated" ->
                       [i \in DOMAIN o[name] |-> SubFromPartial(f.type, o[name][i])]
                 [] Given(o, name) /\ f.rule = "message" -> SubFromPartial(f.type, o[name])
                 [] OTHER -> o[name]
<1>1. m = [name \in Names(T) |-> done(name)]
  BY DEF FromPartial
<1>2. Type(T)
  BY DEF Partial
<1> HIDE DEF m
<1>3. ASSUME NEW i \in DOMAIN T PROVE Fits(T[i], m[T[i].name])
  <2> DEFINE f == T[i]
             v == m[f.name]
             p == o[f.name]
  <2>1. f.name \in Names(T) /\ FieldOf(T, f.name) = f /\ Field(f)
    BY <1>2, FieldFound DEF Type
  <2>2. v = done(f.name)
    BY <1>1, <2>1
  <2>3. CASE ~Given(o, f.name)
    <3>1. v = f.zero
      BY <2>2, <2>3, <2>1
    <3>2. <<>> \in Seq(ToSet(<<>>)) /\ DOMAIN <<>> = {}
      BY DEF ToSet
    <3> HIDE DEF f, v
    <3>3. f.rule = "repeated" => v = <<>>
      BY <2>1, <3>1 DEF Field
    <3>4. Fits(f, v)
      BY <2>1, <3>1, <3>2, <3>3 DEF Fits, ScalarFits, Field
    <3> QED BY <3>4 DEF f, v
  <2>4. CASE Given(o, f.name)
    <3>1. PartFits(f, p)
      BY <2>4 DEF Partial
    <3>2. CASE f.rule = "repeated"
      <4>1. v = [j \in DOMAIN p |-> SubFromPartial(f.type, p[j])]
        BY <2>1, <2>2, <2>4, <3>2
      <4> HIDE DEF f, v, p
      <4>2. \A j \in DOMAIN p : SubIs(f.type, SubFromPartial(f.type, p[j]))
        BY <3>1, <3>2 DEF PartFits
      <4>3. PICK n \in Nat : DOMAIN p = 1 .. n
        <5> DEFINE S == ToSet(p)
        <5>1. p \in Seq(S)
          BY <3>1, <3>2 DEF PartFits
        <5> HIDE DEF S
        <5> QED BY <5>1
      <4>4. v = [j \in 1 .. n |-> v[j]] /\ DOMAIN v = 1 .. n /\ \A j \in 1 .. n : v[j] \in ToSet(v)
        BY <4>1, <4>3 DEF ToSet
      <4>5. v \in Seq(ToSet(v))
        <5> DEFINE S == ToSet(v)
        <5>1. \A j \in 1 .. n : v[j] \in S
          BY <4>4
        <5> HIDE DEF S
        <5>2. v \in [1 .. n -> S]
          BY <4>4, <5>1
        <5>3. v \in Seq(S)
          BY <5>2
        <5> QED BY <5>3 DEF S
      <4>6. \A j \in DOMAIN v : SubIs(f.type, v[j])
        BY <4>1, <4>2
      <4>7. Fits(f, v)
        BY <3>2, <4>5, <4>6 DEF Fits, ScalarFits, IsEnum
      <4> QED BY <4>7 DEF f, v
    <3>3. CASE f.rule = "message"
      <4>1. v = SubFromPartial(f.type, p)
        BY <2>1, <2>2, <2>4, <3>3
      <4> HIDE DEF f, v, p
      <4>2. SubIs(f.type, v)
        BY <3>1, <3>3, <4>1 DEF PartFits
      <4>3. Fits(f, v)
        BY <3>3, <4>2 DEF Fits, ScalarFits, IsEnum
      <4> QED BY <4>3 DEF f, v
    <3>4. CASE f.rule \notin {"repeated", "message"}
      <4>1. v = p
        BY <2>1, <2>2, <2>4, <3>4
      <4> HIDE DEF f, v, p
      <4>2. Fits(f, v)
        BY <3>1, <3>4, <4>1 DEF Fits, PartFits
      <4> QED BY <4>2 DEF f, v
    <3> QED BY <3>2, <3>3, <3>4
  <2> QED BY <2>3, <2>4
<1>4. m = [name \in Names(T) |-> m[name]]
  BY <1>1
<1> QED BY <1>2, <1>3, <1>4 DEF Is, m

-----------------------------------------------------------------------------
(* Types written out: all that is said of the fields of a type may be said *)
(* of the set of them.                                                      *)

(* The first n fields are written out, no two with one number or one name. *)
Listed(T, n) ==
    /\ T = [i \in 1 .. n |-> T[i]]
    /\ \A i \in 1 .. n : Field(T[i])
    /\ \A i, j \in 1 .. n : T[i].num = T[j].num \/ T[i].name = T[j].name => i = j

LEMMA TypeOfFields ==
    ASSUME NEW n \in Nat, NEW T, Listed(T, n)
    PROVE  Type(T) /\ ToSet(T) = {T[i] : i \in 1 .. n}
<1> DEFINE S == ToSet(T)
<1>0. T = [i \in 1 .. n |-> T[i]]
  BY DEF Listed
<1>1. DOMAIN T = 1 .. n /\ S = {T[i] : i \in 1 .. n} /\ \A i \in 1 .. n : T[i] \in S
  BY <1>0 DEF ToSet
<1>2. T \in Seq(S)
  <2> HIDE DEF S
  <2>1. T \in [1 .. n -> S]
    BY <1>0, <1>1
  <2> QED BY <2>1
<1> QED BY <1>1, <1>2 DEF Type, Listed

LEMMA TypeOfOne ==
    ASSUME NEW a, \A f \in {a} : Field(f)
    PROVE  Type(<<a>>) /\ ToSet(<<a>>) = {a}
<1> DEFINE T == <<a>>
           S == {a}
<1>1. T = [i \in 1 .. 1 |-> T[i]] /\ T[1] = a
  OBVIOUS
<1> HIDE DEF T
<1>2. \A i \in 1 .. 1 : i = 1
  OBVIOUS
<1>3. /\ {T[i] : i \in 1 .. 1} = S /\ \A i \in 1 .. 1 : Field(T[i])
      /\ \A i, j \in 1 .. 1 : T[i].num = T[j].num \/ T[i].name = T[j].name => i = j
  BY <1>1, <1>2
<1> HIDE DEF S
<1>4. 1 \in Nat
  OBVIOUS
<1>5. Type(T) /\ ToSet(T) = {T[i] : i \in 1 .. 1}
  <2>1. Listed(T, 1)
    BY <1>1, <1>3 DEF Listed
  <2> QED BY <1>4, <2>1, TypeOfFields
<1>6. Type(T) /\ ToSet(T) = S
  BY <1>3, <1>5
<1> QED BY <1>6 DEF S, T

LEMMA TypeOfTwo ==
    ASSUME NEW a, NEW b, \A f \in {a, b} : Field(f),
           a.num # b.num, a.name # b.name
    PROVE  Type(<<a, b>>) /\ ToSet(<<a, b>>) = {a, b}
<1> DEFINE T == <<a, b>>
           S == {a, b}
<1>1. T = [i \in 1 .. 2 |-> T[i]] /\ T[1] = a /\ T[2] = b
  OBVIOUS
<1> HIDE DEF T
<1>2. \A i \in 1 .. 2 : i = 1 \/ i = 2
  OBVIOUS
<1>3. /\ {T[i] : i \in 1 .. 2} = S /\ \A i \in 1 .. 2 : Field(T[i])
      /\ \A i, j \in 1 .. 2 : T[i].num = T[j].num \/ T[i].name = T[j].name => i = j
  BY <1>1, <1>2
<1> HIDE DEF S
<1>4. 2 \in Nat
  OBVIOUS
<1>5. Type(T) /\ ToSet(T) = {T[i] : i \in 1 .. 2}
  <2>1. Listed(T, 2)
    BY <1>1, <1>3 DEF Listed
  <2> QED BY <1>4, <2>1, TypeOfFields
<1>6. Type(T) /\ ToSet(T) = S
  BY <1>3, <1>5
<1> QED BY <1>6 DEF S, T

LEMMA TypeOfThree ==
    ASSUME NEW a, NEW b, NEW c, \A f \in {a, b, c} : Field(f),
           a.num # b.num, a.name # b.name,
           a.num # c.num, a.name # c.name,
           b.num # c.num, b.name # c.name
    PROVE  Type(<<a, b, c>>) /\ ToSet(<<a, b, c>>) = {a, b, c}
<1> DEFINE T == <<a, b, c>>
           S == {a, b, c}
<1>1. T = [i \in 1 .. 3 |-> T[i]] /\ T[1] = a /\ T[2] = b /\ T[3] = c
  OBVIOUS
<1> HIDE DEF T
<1>2. \A i \in 1 .. 3 : i = 1 \/ i = 2 \/ i = 3
  OBVIOUS
<1>3. /\ {T[i] : i \in 1 .. 3} = S /\ \A i \in 1 .. 3 : Field(T[i])
      /\ \A i, j \in 1 .. 3 : T[i].num = T[j].num \/ T[i].name = T[j].name => i = j
  BY <1>1, <1>2
<1> HIDE DEF S
<1>4. 3 \in Nat
  OBVIOUS
<1>5. Type(T) /\ ToSet(T) = {T[i] : i \in 1 .. 3}
  <2>1. Listed(T, 3)
    BY <1>1, <1>3 DEF Listed
  <2> QED BY <1>4, <2>1, TypeOfFields
<1>6. Type(T) /\ ToSet(T) = S
  BY <1>3, <1>5
<1> QED BY <1>6 DEF S, T

LEMMA TypeOfFour ==
    ASSUME NEW a, NEW b, NEW c, NEW d, \A f \in {a, b, c, d} : Field(f),
           a.num # b.num, a.name # b.name,
           a.num # c.num, a.name # c.name,
           a.num # d.num, a.name # d.name,
           b.num # c.num, b.name # c.name,
           b.num # d.num, b.name # d.name,
           c.num # d.num, c.name # d.name
    PROVE  Type(<<a, b, c, d>>) /\ ToSet(<<a, b, c, d>>) = {a, b, c, d}
<1> DEFINE T == <<a, b, c, d>>
           S == {a, b, c, d}
<1>1. T = [i \in 1 .. 4 |-> T[i]] /\ T[1] = a /\ T[2] = b /\ T[3] = c /\ T[4] = d
  OBVIOUS
<1> HIDE DEF T
<1>2. \A i \in 1 .. 4 : i = 1 \/ i = 2 \/ i = 3 \/ i = 4
  OBVIOUS
<1>3. /\ {T[i] : i \in 1 .. 4} = S /\ \A i \in 1 .. 4 : Field(T[i])
      /\ \A i, j \in 1 .. 4 : T[i].num = T[j].num \/ T[i].name = T[j].name => i = j
  BY <1>1, <1>2
<1> HIDE DEF S
<1>4. 4 \in Nat
  OBVIOUS
<1>5. Type(T) /\ ToSet(T) = {T[i] : i \in 1 .. 4}
  <2>1. Listed(T, 4)
    BY <1>1, <1>3 DEF Listed
  <2> QED BY <1>4, <2>1, TypeOfFields
<1>6. Type(T) /\ ToSet(T) = S
  BY <1>3, <1>5
<1> QED BY <1>6 DEF S, T

LEMMA TypeOfFive ==
    ASSUME NEW a, NEW b, NEW c, NEW d, NEW e, \A f \in {a, b, c, d, e} : Field(f),
           a.num # b.num, a.name # b.name,
           a.num # c.num, a.name # c.name,
           a.num # d.num, a.name # d.name,
           a.num # e.num, a.name # e.name,
           b.num # c.num, b.name # c.name,
           b.num # d.num, b.name # d.name,
           b.num # e.num, b.name # e.name,
           c.num # d.num, c.name # d.name,
           c.num # e.num, c.name # e.name,
           d.num # e.num, d.name # e.name
    PROVE  Type(<<a, b, c, d, e>>) /\ ToSet(<<a, b, c, d, e>>) = {a, b, c, d, e}
<1> DEFINE T == <<a, b, c, d, e>>
           S == {a, b, c, d, e}
<1>1. T = [i \in 1 .. 5 |-> T[i]] /\ T[1] = a /\ T[2] = b /\ T[3] = c /\ T[4] = d /\ T[5] = e
  OBVIOUS
<1> HIDE DEF T
<1>2. \A i \in 1 .. 5 : i = 1 \/ i = 2 \/ i = 3 \/ i = 4 \/ i = 5
  OBVIOUS
<1>3. /\ {T[i] : i \in 1 .. 5} = S /\ \A i \in 1 .. 5 : Field(T[i])
      /\ \A i, j \in 1 .. 5 : T[i].num = T[j].num \/ T[i].name = T[j].name => i = j
  BY <1>1, <1>2
<1> HIDE DEF S
<1>4. 5 \in Nat
  OBVIOUS
<1>5. Type(T) /\ ToSet(T) = {T[i] : i \in 1 .. 5}
  <2>1. Listed(T, 5)
    BY <1>1, <1>3 DEF Listed
  <2> QED BY <1>4, <2>1, TypeOfFields
<1>6. Type(T) /\ ToSet(T) = S
  BY <1>3, <1>5
<1> QED BY <1>6 DEF S, T

LEMMA IsByFields ==
    ASSUME NEW T, NEW m, Type(T),
           m = [name \in {f.name : f \in ToSet(T)} |-> m[name]],
           \A f \in ToSet(T) : Fits(f, m[f.name])
    PROVE  Is(T, m)
<1>1. {f.name : f \in ToSet(T)} = Names(T)
  BY DEF ToSet, Names
<1>2. \A i \in DOMAIN T : T[i] \in ToSet(T)
  BY DEF ToSet
<1> QED BY <1>1, <1>2 DEF Is

LEMMA FieldsOfIs ==
    ASSUME NEW T, NEW m, Is(T, m)
    PROVE  /\ m = [name \in {f.name : f \in ToSet(T)} |-> m[name]]
           /\ \A f \in ToSet(T) : Fits(f, m[f.name])
<1>1. {f.name : f \in ToSet(T)} = Names(T)
  BY DEF ToSet, Names
<1> QED BY <1>1 DEF Is, ToSet

LEMMA PartialByFields ==
    ASSUME NEW T, NEW o, Type(T),
           \A f \in ToSet(T) : Given(o, f.name) => PartFits(f, o[f.name])
    PROVE  Partial(T, o)
<1>1. \A i \in DOMAIN T : T[i] \in ToSet(T)
  BY DEF ToSet
<1> QED BY <1>1 DEF Partial

LEMMA KeptByFields ==
    ASSUME NEW T, NEW m, NEW k, Type(T),
           k = [name \in {f.name : f \in ToSet(T)} |-> k[name]],
           \A f \in ToSet(T) : k[f.name] = KeptField(f, m[f.name])
    PROVE  Kept(T, m) = k
<1>1. {f.name : f \in ToSet(T)} = Names(T)
  BY DEF ToSet, Names
<1>2. ASSUME NEW name \in Names(T) PROVE KeptField(FieldOf(T, name), m[name]) = k[name]
  <2>1. PICK i \in DOMAIN T : name = T[i].name
    BY DEF Names
  <2>2. T[i] \in ToSet(T)
    BY DEF ToSet
  <2> QED BY <2>1, <2>2, FieldFound
<1> QED BY <1>1, <1>2 DEF Kept

(* What fromPartial makes of a field that is given, or is not.              *)
LEMMA CompletedByFields ==
    ASSUME NEW T, NEW o, NEW f, Type(T), f \in ToSet(T)
    PROVE  /\ ~Given(o, f.name) => FromPartial(T, o)[f.name] = f.zero
           /\ Given(o, f.name) /\ f.rule = "message" =>
                 FromPartial(T, o)[f.name] = SubFromPartial(f.type, o[f.name])
           /\ Given(o, f.name) /\ f.rule \in {"implicit", "optional"} =>
                 FromPartial(T, o)[f.name] = o[f.name]
<1>1. PICK i \in DOMAIN T : f = T[i]
  BY DEF ToSet
<1>2. f.name \in Names(T) /\ FieldOf(T, f.name) = f
  BY <1>1, FieldFound
<1> QED BY <1>2 DEF FromPartial

(* And of each element of a repeated one.                                   *)
LEMMA EachCompleted ==
    ASSUME NEW T, NEW o, NEW f, Type(T), f \in ToSet(T), Given(o, f.name), f.rule = "repeated",
           NEW j \in DOMAIN o[f.name]
    PROVE  FromPartial(T, o)[f.name][j] = SubFromPartial(f.type, o[f.name][j])
<1>1. PICK i \in DOMAIN T : f = T[i]
  BY DEF ToSet
<1>2. f.name \in Names(T) /\ FieldOf(T, f.name) = f
  BY <1>1, FieldFound
<1> QED BY <1>2 DEF FromPartial

LEMMA EnumOfTwo ==
    ASSUME NEW x, NEW y, x # y, x # "UNKNOWN", y # "UNKNOWN"
    PROVE  EnumNames(<<x, y>>)
<1> DEFINE s == <<x, y>>
           S == ToSet(s)
<1>1. Len(s) = 2 /\ DOMAIN s = 1 .. 2 /\ s[1] = x /\ s[2] = y /\ s = [i \in 1 .. 2 |-> s[i]]
  OBVIOUS
<1>2. S = {x, y}
  <2> HIDE DEF s
  <2> QED BY <1>1 DEF ToSet
<1>3. s \in Seq(S)
  <2> HIDE DEF s, S
  <2> QED BY <1>1, <1>2
<1>4. \A i, j \in DOMAIN s : s[i] = s[j] => i = j
  <2> HIDE DEF s
  <2> QED BY <1>1
<1> HIDE DEF s, S
<1>5. EnumNames(s)
  BY <1>2, <1>3, <1>4 DEF EnumNames, S
<1> QED BY <1>5 DEF s

(* The fields that types are made of: what is a value of them, and what    *)
(* JSON keeps of it.                                                        *)
LEMMA OfOptional ==
    ASSUME NEW f, f.rule = "optional", f.type.tag # "enum", NEW v
    PROVE  /\ f.zero = Undefined => Field(f)
           /\ Fits(f, v) /\ PartFits(f, v) /\ KeptField(f, v) = v
BY DEF Field, IsEnum, Fits, PartFits, ScalarFits, KeptField

LEMMA OfImplicit ==
    ASSUME NEW f, f.rule = "implicit", f.type.tag # "enum", NEW v
    PROVE  /\ f.zero # Undefined => Field(f)
           /\ Fits(f, v) <=> v # Undefined
           /\ PartFits(f, v) <=> v # Undefined
           /\ KeptField(f, v) = v
BY DEF Field, IsEnum, Fits, PartFits, ScalarFits, KeptField

LEMMA OfEnum ==
    ASSUME NEW f, f.rule = "implicit", f.type.tag = "enum", NEW v
    PROVE  /\ EnumNames(f.type.names) /\ f.zero # Undefined /\ f.zero \in Int => Field(f)
           /\ Fits(f, v) <=> v # Undefined /\ v \in Int
           /\ PartFits(f, v) <=> v # Undefined /\ v \in Int
           /\ v # Undefined =>
                 KeptField(f, v) = IF v + 1 \in DOMAIN f.type.names THEN v ELSE Unrecognized
BY DEF Field, IsEnum, Fits, PartFits, ScalarFits, KeptField

LEMMA OfEmbedded ==
    ASSUME NEW f, f.rule = "message", NEW v
    PROVE  /\ f.zero = Undefined => Field(f)
           /\ Fits(f, v) <=> v = Undefined \/ SubIs(f.type, v)
           /\ PartFits(f, v) <=> SubPartial(f.type, v)
           /\ KeptField(f, v) = IF v = Undefined THEN v ELSE SubKept(f.type, v)
BY DEF Field, IsEnum, Fits, PartFits, ScalarFits, KeptField

LEMMA OfRepeated ==
    ASSUME NEW f, f.rule = "repeated", NEW v
    PROVE  /\ f.zero = <<>> => Field(f)
           /\ Fits(f, v) <=> v \in Seq(ToSet(v)) /\ \A i \in DOMAIN v : SubIs(f.type, v[i])
           /\ PartFits(f, v) <=> v \in Seq(ToSet(v)) /\ \A i \in DOMAIN v : SubPartial(f.type, v[i])
           /\ KeptField(f, v) = [i \in DOMAIN v |-> SubKept(f.type, v[i])]
BY DEF Field, IsEnum, Fits, PartFits, ScalarFits, KeptField

=============================================================================

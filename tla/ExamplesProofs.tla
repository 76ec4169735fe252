----------------------------- MODULE ExamplesProofs -----------------------------
(***************************************************************************)
(* What holds of the pages of the examples, for any accounts,              *)
(* announcements, messages and bounds: of EthPm (observers, recipients and *)
(* what is shown), and of WebChat (Chat), which MCExamples puts next to it *)
(* as the other page the reader can open.                                  *)
(***************************************************************************)
EXTENDS MCExamples, FiniteSetTheorems, TLAPS

USE EthPmAssumption

-----------------------------------------------------------------------------
(* Observers *)

(* An effect leaves one observer of each kind at most: that of its last run. *)
OneObserver == publicObs = PublicOf(ran) /\ privateObs = PrivateOf(ran)

LEMMA OneOf ==
    ASSUME NEW deps
    PROVE  /\ Cleaned(PublicOf(deps), PublicOf(deps)) = <<>>
           /\ Cleaned(PrivateOf(deps), PrivateOf(deps)) = <<>>
           /\ \A i \in DOMAIN PrivateOf(deps) : i = 1 /\ PrivateOf(deps)[i] = deps.address /\ deps.address # None
  <1>1. \A x : SubSeq(<<x>>, 1, Len(<<x>>) - Len(<<x>>)) = <<>>
    OBVIOUS
  <1>2. SubSeq(<<>>, 1, Len(<<>>) - Len(<<>>)) = <<>>
    OBVIOUS
  <1> QED
    BY <1>1, <1>2 DEF Cleaned, PublicOf, PrivateOf

LEMMA StepOneObserver == OneObserver /\ [Next]_vars => OneObserver'
  <1> SUFFICES ASSUME OneObserver, [Next]_vars PROVE OneObserver'
    OBVIOUS
  <1>1. CASE RunEffects
    <2>1. publicObs' = <<>> \o PublicOf(Deps) /\ privateObs' = <<>> \o PrivateOf(Deps)
      BY <1>1, OneOf DEF RunEffects, OneObserver
    <2>2. <<>> \o PublicOf(Deps) = PublicOf(Deps) /\ <<>> \o PrivateOf(Deps) = PrivateOf(Deps)
      BY DEF PublicOf, PrivateOf
    <2>3. ran' = Deps /\ wallet' = wallet
      BY <1>1 DEF RunEffects
    <2> QED
      BY <2>1, <2>2, <2>3 DEF OneObserver, PublicOf, PrivateOf
  <1>2. CASE ~RunEffects
    <2>1. UNCHANGED <<wallet, ran, publicObs, privateObs>>
      BY <1>2 DEF Next, vars, CreateFails, Created, PeerConnects, TimeOut, ConnectWallet, GenerateKeyPair, LoadKeyPair,
         RequestPublicKey, AskToSign, PushKept, Rejected, KeyArrives, Signed, Decrypted, ReceivePublic,
         ReceivePrivate, HandlePublic, HandlePrivate
    <2> QED
      BY <2>1 DEF OneObserver, PublicOf, PrivateOf
  <1> QED
    BY <1>1, <1>2

-----------------------------------------------------------------------------
(* Types *)

(* An own announcement is a record with an own address and key. *)
LEMMA OwnAnnouncement ==
    ASSUME NEW a \in Account, NEW k \in OwnKey
    PROVE  /\ Announcement(a, k) \in Own
           /\ Announcement(a, k) = [address |-> a, key |-> k, signer |-> a]
  BY DEF Own, Announcement

LEMMA OwnFields ==
    ASSUME NEW m \in Own
    PROVE  /\ m.address \in Account /\ m.key \in OwnKey /\ m.signer = m.address
           /\ m = [address |-> m.address, key |-> m.key, signer |-> m.signer]
  BY DEF Own, Announcement

(* What is collected keeps the type, and is signed by the address. *)
LEMMA CollectedSigned ==
    ASSUME TypeOK, RecipientsSigned, NEW m \in Foreign \cup announced
    PROVE  /\ Collected(m) \in [Address -> OwnKey \cup {f.key : f \in Foreign} \cup {None}]
           /\ \A a \in Address : Collected(m)[a] # None =>
                [address |-> a, key |-> Collected(m)[a], signer |-> a] \in Foreign \cup announced
  <1>1. m.address \in Address /\ m = [address |-> m.address, key |-> m.key, signer |-> m.signer]
    BY OwnFields DEF TypeOK, Address
  <1>2. m.key \in OwnKey \cup {f.key : f \in Foreign}
    BY OwnFields DEF TypeOK
  <1>3. CASE Collected(m) = recipients
    BY <1>3 DEF TypeOK, RecipientsSigned
  <1>4. CASE Valid(m) /\ Collected(m) = [recipients EXCEPT ![m.address] = m.key]
    BY <1>1, <1>2, <1>4 DEF TypeOK, RecipientsSigned, Valid
  <1> QED
    BY <1>3, <1>4 DEF Collected

(* Asking and decoding keep the types of the sets. *)
LEMMA Grown ==
    ASSUME TypeOK, announced \subseteq announced', announced' \subseteq Own,
           Len(arrived) <= Len(arrived'), Len(arrived) \in Nat, Len(arrived') \in Nat
    PROVE  Question \subseteq Question' /\ Job \subseteq Job' /\ Own' = Own /\ OwnKey' = OwnKey /\ PageKey' = PageKey
  <1>1. Own' = Own /\ OwnKey' = OwnKey /\ PageKey' = PageKey
    BY DEF Own, OwnKey, PageKey, Announcement
  <1>2. 1 .. Len(arrived) \subseteq 1 .. Len(arrived')
    OBVIOUS
  <1>3. Question \subseteq Question'
    BY <1>1, <1>2 DEF Question
  <1>4. Job \subseteq Job'
    BY <1>1, <1>2 DEF Job
  <1> QED
    BY <1>1, <1>3, <1>4

LEMMA InitTyped == Init => TypeOK /\ RecipientsSigned
  BY DEF Init, TypeOK, RecipientsSigned, PageKey, Own

(* The types and the signed recipients are kept by every step. *)
LEMMA StepTyped == TypeOK /\ RecipientsSigned /\ OneObserver /\ [Next]_vars => TypeOK' /\ RecipientsSigned'
  <1> SUFFICES ASSUME TypeOK, RecipientsSigned, OneObserver, [Next]_vars
               PROVE  TypeOK' /\ RecipientsSigned'
    OBVIOUS
  <1> USE DEF TypeOK
  <1>s. Len(arrived) \in Nat
    OBVIOUS
  <1>c. Own' = Own /\ OwnKey' = OwnKey /\ PageKey' = PageKey /\ Address' = Address
    BY DEF Own, OwnKey, PageKey, Announcement, Address
  <1>g. ASSUME announced' = announced, arrived' = arrived
        PROVE  Question' = Question /\ Job' = Job
    BY <1>g, <1>c DEF Question, Job
  <1>1. CASE CreateFails \/ Created \/ PeerConnects \/ TimeOut \/ vars' = vars
    BY <1>1, <1>c, <1>g DEF CreateFails, Created, PeerConnects, TimeOut, vars, RecipientsSigned
  <1>2. CASE RunEffects
    <2>1. Deps \in [ready : BOOLEAN, address : Account \cup {None}, key : PageKey]
      BY DEF Deps
    <2> QED
      BY <1>2, <2>1, <1>c, <1>g DEF RunEffects, RecipientsSigned
  <1>3. ASSUME NEW a \in Account, ConnectWallet(a) PROVE TypeOK' /\ RecipientsSigned'
    BY <1>3, <1>c, <1>g DEF ConnectWallet, RecipientsSigned
  <1>4. CASE GenerateKeyPair
    BY <1>4, <1>c, <1>g DEF GenerateKeyPair, RecipientsSigned, PageKey, OwnKey
  <1>5. CASE LoadKeyPair \/ RequestPublicKey \/ AskToSign
    <2>1. asked' \subseteq Question
      BY <1>5 DEF LoadKeyPair, RequestPublicKey, AskToSign, Question, PageKey
    <2> QED
      BY <1>5, <2>1, <1>c, <1>g DEF LoadKeyPair, RequestPublicKey, AskToSign, RecipientsSigned
  <1>6. CASE PushKept
    <2>1. announced' = announced
      BY <1>6 DEF PushKept
    <2> QED
      BY <1>6, <2>1, <1>c, <1>g DEF PushKept, RecipientsSigned
  <1>7. ASSUME NEW q \in asked, Rejected(q) \/ KeyArrives(q) \/ Signed(q) \/ Decrypted(q)
        PROVE  TypeOK' /\ RecipientsSigned'
    <2>1. CASE Rejected(q)
      BY <2>1, <1>c, <1>g DEF Rejected, RecipientsSigned
    <2>2. CASE KeyArrives(q)
      <3>1. (IF q.method = "load" THEN Loaded ELSE q.address) \in PageKey
        BY <2>2 DEF KeyArrives, Question, PageKey, OwnKey
      <3> QED
        BY <2>2, <3>1, <1>c, <1>g DEF KeyArrives, RecipientsSigned
    <2>3. CASE Signed(q)
      <3>1. q.address \in Account /\ q.key \in OwnKey
        BY <2>3 DEF Signed, Question
      <3> DEFINE msg == Announcement(q.address, q.key)
      <3>2. msg \in Own
        BY <3>1, OwnAnnouncement
      <3>3. announced' = announced \cup {msg} /\ arrived' = arrived
        BY <2>3 DEF Signed
      <3>4. Question \subseteq Question' /\ Job \subseteq Job'
        BY <3>2, <3>3, <1>s, Grown
      <3>5. page' \in [address : Account \cup {None}, key : PageKey, msg : announced' \cup {None}]
        BY <2>3, <3>3 DEF Signed
      <3>6. RecipientsSigned'
        BY <2>3, <3>3, <1>c DEF Signed, RecipientsSigned
      <3>7. announced' \subseteq Own' /\ asked' \subseteq Question' /\ decoding' \subseteq Job'
        BY <2>3, <3>2, <3>3, <3>4, <1>c DEF Signed
      <3>8. UNCHANGED <<wallet, node, ran, recipients, arrived, shown, connects>>
        BY <2>3 DEF Signed
      <3> HIDE DEF msg
      <3> QED
        BY <3>5, <3>6, <3>7, <3>8, <1>c
    <2>4. CASE Decrypted(q)
      <3>1. shown' \in [1 .. MaxPrivate -> Nat]
        BY <2>4 DEF Decrypted, Question
      <3> QED
        BY <2>4, <3>1, <1>c, <1>g DEF Decrypted, RecipientsSigned
    <2> QED
      BY <1>7, <2>1, <2>2, <2>3, <2>4
  <1>8. ASSUME NEW m \in Foreign \cup announced, ReceivePublic(m)
        PROVE  TypeOK' /\ RecipientsSigned'
    <2>1. announced' = announced /\ arrived' = arrived
      BY <1>8 DEF ReceivePublic
    <2>2. decoding' \subseteq Job
      BY <1>8 DEF ReceivePublic, Job
    <2>3. recipients' = Collected(m) \/ recipients' = recipients
      BY <1>8 DEF ReceivePublic
    <2>4. RecipientsSigned' /\ recipients' \in [Address -> OwnKey \cup {f.key : f \in Foreign} \cup {None}]
      BY <2>1, <2>3, <1>c, CollectedSigned DEF RecipientsSigned
    <2> QED
      BY <1>8, <2>1, <2>2, <2>4, <1>c, <1>g DEF ReceivePublic
  <1>9. ASSUME NEW m \in announced, ReceivePrivate(m)
        PROVE  TypeOK' /\ RecipientsSigned'
    <2>1. arrived' = Append(arrived, m) /\ Len(arrived) < MaxPrivate /\ announced' = announced
      BY <1>9 DEF ReceivePrivate
    <2>2. arrived' \in Seq(Own) /\ Len(arrived') = Len(arrived) + 1
      BY <2>1
    <2>3. Question \subseteq Question' /\ Job \subseteq Job'
      BY <2>1, <2>2, <1>s, Grown
    <2>4. \A n : n = Len(arrived) + 1 => [kind |-> "private", n |-> n] \in Job'
      BY <2>2 DEF Job
    <2>5. decoding' \subseteq Job'
      BY <1>9, <2>3, <2>4 DEF ReceivePrivate
    <2>6. asked' \subseteq Question'
      <3>1. CASE asked' = asked
        BY <3>1, <2>3
      <3>2. CASE asked' # asked
        <4>1. asked' = asked \cup {[method |-> "decrypt", n |-> Len(arrived) + 1, by |-> i,
                                    address |-> privateObs[i]] : i \in DOMAIN privateObs}
          BY <1>9, <3>2 DEF ReceivePrivate
        <4>2. \A i \in DOMAIN privateObs : i = 1 /\ privateObs[i] \in Account
          BY OneOf DEF OneObserver
        <4>3. \A i \in DOMAIN privateObs :
                [method |-> "decrypt", n |-> Len(arrived) + 1, by |-> i, address |-> privateObs[i]] \in Question'
          BY <4>2, <2>2, <1>s DEF Question
        <4> QED
          BY <4>1, <4>3, <2>3
      <3> QED
        BY <3>1, <3>2
    <2> QED
      BY <1>9, <2>1, <2>2, <2>5, <2>6, <1>c, <1>s DEF ReceivePrivate, RecipientsSigned
  <1>10. ASSUME NEW job \in decoding, HandlePublic(job)
         PROVE  TypeOK' /\ RecipientsSigned'
    <2>1. announced' = announced /\ arrived' = arrived /\ decoding' \subseteq Job
      BY <1>10 DEF HandlePublic
    <2>2. job.msg \in Foreign \cup announced
      BY <1>10 DEF HandlePublic, Job
    <2>3. RecipientsSigned' /\ recipients' \in [Address -> OwnKey \cup {f.key : f \in Foreign} \cup {None}]
      BY <1>10, <2>1, <2>2, <1>c, CollectedSigned DEF HandlePublic, RecipientsSigned
    <2> QED
      BY <1>10, <2>1, <2>3, <1>c, <1>g DEF HandlePublic
  <1>11. ASSUME NEW job \in decoding, HandlePrivate(job)
         PROVE  TypeOK' /\ RecipientsSigned'
    <2>1. \A S : S \subseteq DOMAIN privateObs => Cardinality(S) \in Nat
      <3>1. DOMAIN privateObs \subseteq {1}
        BY OneOf DEF OneObserver
      <3>2. IsFiniteSet({1})
        BY FS_Singleton
      <3> QED
        BY <3>1, <3>2, FS_Subset, FS_CardinalityType
    <2>2. shown' \in [1 .. MaxPrivate -> Nat]
      BY <1>11, <2>1 DEF HandlePrivate, Job
    <2> QED
      BY <1>11, <2>2, <1>c, <1>g DEF HandlePrivate, RecipientsSigned
  <1> QED
    BY <1>1, <1>2, <1>3, <1>4, <1>5, <1>6, <1>7, <1>8, <1>9, <1>10, <1>11 DEF Next

-----------------------------------------------------------------------------
(* A message that is not handled yet *)

(* It has not been shown, and it has one decode, or one question to the     *)
(* wallet, under way.                                                       *)
PendingNotShown ==
    /\ \A n \in 1 .. MaxPrivate : n > Len(arrived) => shown[n] = 0
    /\ \A job \in decoding : job.kind = "private" =>
        shown[job.n] = 0 /\ \A q \in asked : q.method = "decrypt" => q.n # job.n
    /\ \A q \in asked : q.method = "decrypt" =>
        shown[q.n] = 0 /\ \A r \in asked : r.method = "decrypt" /\ r.n = q.n => r = q

IInv == TypeOK /\ RecipientsSigned /\ OneObserver /\ PendingNotShown /\ ShownOnce

(* A step that shows nothing and starts no handling. *)
LEMMA NothingShown ==
    ASSUME PendingNotShown, ShownOnce, UNCHANGED <<arrived, shown>>,
           \A job \in decoding' : job \in decoding \/ job.kind = "public",
           \A q \in asked' : q \in asked \/ q.method # "decrypt"
    PROVE  PendingNotShown' /\ ShownOnce'
  BY DEF PendingNotShown, ShownOnce

LEMMA StepShown == IInv /\ [Next]_vars => PendingNotShown' /\ ShownOnce'
  <1> SUFFICES ASSUME IInv, [Next]_vars PROVE PendingNotShown' /\ ShownOnce'
    OBVIOUS
  <1> USE DEF IInv
  <1>s. Len(arrived) \in Nat /\ shown \in [1 .. MaxPrivate -> Nat] /\ Len(arrived) <= MaxPrivate
    BY DEF TypeOK
  <1>1. CASE CreateFails \/ Created \/ PeerConnects \/ TimeOut \/ RunEffects \/ GenerateKeyPair \/ PushKept \/ vars' = vars
    BY <1>1, NothingShown DEF CreateFails, Created, PeerConnects, TimeOut, RunEffects, GenerateKeyPair, PushKept, vars
  <1>2. CASE \E a \in Account : ConnectWallet(a)
    BY <1>2, NothingShown DEF ConnectWallet
  <1>3. CASE LoadKeyPair \/ RequestPublicKey \/ AskToSign
    BY <1>3, NothingShown DEF LoadKeyPair, RequestPublicKey, AskToSign
  <1>4. ASSUME NEW q \in asked, Rejected(q) \/ KeyArrives(q) \/ Signed(q)
        PROVE  PendingNotShown' /\ ShownOnce'
    BY <1>4, NothingShown DEF Rejected, KeyArrives, Signed
  <1>5. ASSUME NEW q \in asked, Decrypted(q) PROVE PendingNotShown' /\ ShownOnce'
    <2>1. q.n \in 1 .. MaxPrivate /\ q.n <= Len(arrived) /\ shown[q.n] = 0
      BY <1>5, <1>s DEF Decrypted, TypeOK, Question, PendingNotShown
    <2>2. /\ \A n \in 1 .. MaxPrivate : n # q.n => shown'[n] = shown[n]
          /\ shown'[q.n] \in {0, 1} /\ DOMAIN shown' = 1 .. MaxPrivate
      BY <1>5, <1>s, <2>1 DEF Decrypted
    <2>3. asked' = asked \ {q} /\ decoding' = decoding /\ arrived' = arrived
      BY <1>5 DEF Decrypted
    <2>4. ShownOnce'
      BY <2>1, <2>2, <1>s DEF ShownOnce
    <2>5. \A job \in decoding : job.kind = "private" => job.n \in 1 .. MaxPrivate /\ job.n # q.n
      BY <1>5, <1>s DEF TypeOK, Job, PendingNotShown, Decrypted
    <2>6. \A r \in asked' : r.method = "decrypt" => r.n \in 1 .. MaxPrivate /\ r.n # q.n
      BY <1>5, <1>s, <2>3 DEF TypeOK, Question, PendingNotShown, Decrypted
    <2> QED
      BY <2>1, <2>2, <2>3, <2>4, <2>5, <2>6 DEF PendingNotShown
  <1>6. ASSUME NEW m \in Foreign \cup announced, ReceivePublic(m) PROVE PendingNotShown' /\ ShownOnce'
    BY <1>6, NothingShown DEF ReceivePublic
  <1>7. ASSUME NEW m \in announced, ReceivePrivate(m) PROVE PendingNotShown' /\ ShownOnce'
    <2> DEFINE n == Len(arrived) + 1
    <2>1. n \in 1 .. MaxPrivate /\ shown[n] = 0 /\ n > Len(arrived)
      BY <1>7, <1>s DEF ReceivePrivate, PendingNotShown
    <2>2. arrived' = Append(arrived, m) /\ Len(arrived') = n /\ shown' = shown
      BY <1>7 DEF ReceivePrivate, TypeOK
    <2>3. /\ \A job \in decoding : job.kind = "private" => job.n \in 1 .. Len(arrived)
          /\ \A q \in asked : q.method = "decrypt" => q.n \in 1 .. Len(arrived)
      BY DEF TypeOK, Job, Question
    <2>4. \A i \in DOMAIN privateObs : i = 1
      BY OneOf DEF OneObserver
    <2>5. CASE wallet
      <3>1. /\ decoding' = decoding
            /\ \A q \in asked' : \/ q \in asked
                                  \/ q = [method |-> "decrypt", n |-> n, by |-> 1, address |-> privateObs[1]]
        BY <1>7, <2>4, <2>5 DEF ReceivePrivate
      <3> HIDE DEF n
      <3> QED
        BY <3>1, <2>1, <2>2, <2>3, <1>s DEF PendingNotShown, ShownOnce
    <2>6. CASE ~wallet
      <3>1. /\ asked' = asked
            /\ \A job \in decoding' : job \in decoding \/ job = [kind |-> "private", n |-> n]
        BY <1>7, <2>6 DEF ReceivePrivate
      <3> HIDE DEF n
      <3> QED
        BY <3>1, <2>1, <2>2, <2>3, <1>s DEF PendingNotShown, ShownOnce
    <2> QED
      BY <2>5, <2>6
  <1>8. ASSUME NEW job \in decoding, HandlePublic(job) PROVE PendingNotShown' /\ ShownOnce'
    BY <1>8, NothingShown DEF HandlePublic
  <1>9. ASSUME NEW job \in decoding, HandlePrivate(job) PROVE PendingNotShown' /\ ShownOnce'
    <2> DEFINE mine == {i \in DOMAIN privateObs : privateObs[i] = arrived[job.n].address}
    <2>1. Cardinality(mine) \in {0, 1}
      <3>1. mine \subseteq {1}
        BY OneOf DEF OneObserver
      <3>2. mine = {} \/ mine = {1}
        BY <3>1
      <3> QED
        BY <3>2, FS_EmptySet, FS_Singleton
    <2>2. job.n \in 1 .. MaxPrivate /\ job.n <= Len(arrived) /\ shown[job.n] = 0
      BY <1>9, <1>s DEF HandlePrivate, TypeOK, Job, PendingNotShown
    <2>3. shown' = [shown EXCEPT ![job.n] = @ + Cardinality(mine)]
      BY <1>9 DEF HandlePrivate
    <2> HIDE DEF mine
    <2>4. /\ \A n \in 1 .. MaxPrivate : n # job.n => shown'[n] = shown[n]
          /\ shown'[job.n] \in {0, 1} /\ DOMAIN shown' = 1 .. MaxPrivate
      BY <2>1, <2>2, <2>3, <1>s
    <2>5. decoding' = decoding \ {job} /\ asked' = asked /\ arrived' = arrived
      BY <1>9 DEF HandlePrivate
    <2>6. ShownOnce'
      BY <2>2, <2>4, <1>s DEF ShownOnce
    <2>7. \A other \in decoding' : other.kind = "private" => other.n \in 1 .. MaxPrivate /\ other.n # job.n
      BY <1>9, <2>5, <1>s DEF HandlePrivate, TypeOK, Job
    <2>8. \A q \in asked : q.method = "decrypt" => q.n \in 1 .. MaxPrivate /\ q.n # job.n
      BY <1>9, <1>s DEF HandlePrivate, TypeOK, Question, PendingNotShown
    <2> QED
      BY <2>2, <2>4, <2>5, <2>6, <2>7, <2>8 DEF PendingNotShown
  <1> QED
    BY <1>1, <1>2, <1>3, <1>4, <1>5, <1>6, <1>7, <1>8, <1>9 DEF Next

-----------------------------------------------------------------------------

LEMMA Inductive == Init /\ [][Next]_vars => []IInv
  <1>1. Init => IInv
    <2>1. Init => OneObserver
      BY DEF Init, OneObserver, PublicOf, PrivateOf
    <2>2. Init => PendingNotShown /\ ShownOnce
      BY DEF Init, PendingNotShown, ShownOnce
    <2> QED
      BY <2>1, <2>2, InitTyped DEF IInv
  <1>2. IInv /\ [Next]_vars => IInv'
    BY StepTyped, StepOneObserver, StepShown DEF IInv
  <1> QED
    BY <1>1, <1>2, PTL

(* The page only ever holds, asks, decodes and collects what it can.        *)
THEOREM PageTypeCorrect == Spec => []TypeOK
  BY Inductive, PTL DEF Spec, IInv

(* Whatever announcements arrive and however their decodes end, the key     *)
(* collected for an address is one that the address signed                  *)
(* (waku.ts, handlePublicKeyMessage).                                       *)
THEOREM RecipientsAreSigned == Spec => []RecipientsSigned
  BY Inductive, PTL DEF Spec, IInv

(* However often the account and the key change, no message is shown twice  *)
(* (App.tsx, the effects, and handlePrivateMessage).                        *)
THEOREM NeverShownTwice == Spec => []ShownOnce
  BY Inductive, PTL DEF Spec, IInv
-----------------------------------------------------------------------------
(* The chat page *)

HIDE EthPmAssumption

(* A step with one page open is a step of it, and none of the other.        *)
LEMMA PagesStep ==
    [MCNext]_<<opened, vars, chatVars>> => [Next]_vars /\ [Chat!Next]_(Chat!vars)
  <1>1. chatVars = Chat!vars
    BY DEF chatVars, Chat!vars
  <1>2. UNCHANGED chatVars => UNCHANGED Chat!vars
    BY DEF chatVars, Chat!vars
  <1> QED
    BY <1>2 DEF MCNext

(* Whichever page is open, both behave as their modules say.                *)
THEOREM PagesApart == MCSpec => Init /\ [][Next]_vars /\ Chat!Spec
  <1>1. MCInit => Init /\ Chat!Init
    BY DEF MCInit
  <1> QED
    BY <1>1, PagesStep, PTL DEF MCSpec, Chat!Spec

(* The effects register one thing at a time: the listener of the peer store *)
(* until the history has been asked for, then the observer.                 *)
Registered ==
    /\ observing = IF ranWith.ready /\ ranWith.retrieved THEN 1 ELSE 0
    /\ listening = IF ranWith.ready /\ ~ranWith.retrieved THEN 1 ELSE 0

LEMMA StepRegistered == Registered /\ [Chat!Next]_(Chat!vars) => Registered'
  <1> SUFFICES ASSUME Registered, [Chat!Next]_(Chat!vars) PROVE Registered'
      OBVIOUS
  <1>1. CASE Chat!RunEffects
    <2>1. ranWith' = [ready |-> ready, retrieved |-> retrieved]
      BY <1>1 DEF Chat!RunEffects, Chat!Deps
    <2>2. /\ observing' = 0 + (IF ready /\ retrieved THEN 1 ELSE 0)
          /\ listening' = 0 + (IF ready /\ ~retrieved THEN 1 ELSE 0)
      BY <1>1 DEF Chat!RunEffects, Chat!Kept
    <2> QED
      BY <2>1, <2>2 DEF Registered
  <1>2. CASE ~Chat!RunEffects
    <2>1. UNCHANGED <<ranWith, listening, observing>>
      BY <1>2 DEF Chat!Next, Chat!vars, Chat!SetWaku, Chat!CheckAndRetrieve, Chat!ShowPage, Chat!Ended, Chat!Post, Chat!HandleMessage, Chat!Arrive
    <2> QED
      BY <2>1 DEF Registered
  <1> QED
      BY <1>1, <1>2

LEMMA AlwaysRegistered == Chat!Spec => []Registered
  <1>1. Chat!Init => Registered
    BY DEF Chat!Init, Registered
  <1> QED
    BY <1>1, StepRegistered, PTL DEF Chat!Spec

(* Once the page observes new messages it starts no retrieval any more      *)
(* (App.tsx, checkAndRetrieve and its cleanup).                             *)
THEOREM NoLateRetrieval == MCSpec => NoRetrievalOnceObserving
  <1>1. Registered /\ [Chat!Next]_(Chat!vars) => [observing > 0 => Len(retrievals') = Len(retrievals)]_(Chat!vars)
    <2> SUFFICES ASSUME Registered, Chat!Next, observing > 0
                 PROVE  Len(retrievals') = Len(retrievals)
      OBVIOUS
    <2>1. ~Chat!CheckAndRetrieve
      BY DEF Registered, Chat!CheckAndRetrieve
    <2>2. ASSUME NEW r \in DOMAIN retrievals, Chat!ShowPage(r) \/ Chat!Ended(r)
          PROVE  Len(retrievals') = Len(retrievals)
      BY <2>2 DEF Chat!ShowPage, Chat!Ended
    <2> QED
      BY <2>1, <2>2 DEF Chat!Next, Chat!SetWaku, Chat!RunEffects, Chat!Post, Chat!HandleMessage, Chat!Arrive
  <1> QED
    BY <1>1, AlwaysRegistered, PagesApart, PTL
    DEF Chat!Spec, NoRetrievalOnceObserving, Chat!NoRetrievalOnceObserving

-----------------------------------------------------------------------------

Retrieval == [upTo : 0 .. posted, got : 0 .. posted, open : BOOLEAN]

(* A page of the history: how far it goes, and what it consists of. *)
LastOf(q) == IF q.got + PageSize < q.upTo THEN q.got + PageSize ELSE q.upTo
PageOf(q) == [n \in 1 .. LastOf(q) - q.got |-> q.got + n]

LEMMA PageType ==
    ASSUME PageSize \in Nat \ {0}, posted \in Nat, NEW q \in Retrieval, q.got < q.upTo
    PROVE  /\ LastOf(q) \in q.got + 1 .. q.upTo /\ LastOf(q) \in Nat
           /\ PageOf(q) \in Seq(1 .. posted) /\ Len(PageOf(q)) = LastOf(q) - q.got
  <1>1. q.got \in Nat /\ q.upTo \in Nat /\ q.upTo <= posted
    BY DEF Retrieval
  <1>2. LastOf(q) \in q.got + 1 .. q.upTo /\ LastOf(q) \in Nat
    BY <1>1 DEF LastOf
  <1>3. \A n \in 1 .. LastOf(q) - q.got : q.got + n \in 1 .. posted
    BY <1>1, <1>2
  <1>4. LastOf(q) - q.got \in Nat
    BY <1>1, <1>2
  <1> QED
    BY <1>2, <1>3, <1>4 DEF PageOf

LEMMA StepChatTyped ==
    Chat!TypeOK /\ [Chat!Next]_(Chat!vars) => Chat!TypeOK'
  <1> SUFFICES ASSUME Chat!TypeOK, [Chat!Next]_(Chat!vars) PROVE Chat!TypeOK'
    OBVIOUS
  <1> USE DEF Chat!TypeOK
  <1>0. posted \in Nat /\ retrievals \in Seq(Retrieval)
    BY DEF Retrieval
  <1>1. CASE Chat!SetWaku \/ Chat!vars' = Chat!vars
    BY <1>1 DEF Chat!SetWaku, Chat!vars
  <1>2. CASE Chat!RunEffects
    BY <1>2 DEF Chat!RunEffects, Chat!Deps, Chat!Kept
  <1>3. CASE Chat!CheckAndRetrieve
    <2> DEFINE new == [n \in 1 .. listening |-> [upTo |-> posted, got |-> 0, open |-> TRUE]]
    <2>1. new \in Seq(Retrieval) /\ Len(new) = listening
      BY <1>0 DEF Retrieval
    <2>2. retrievals' = retrievals \o new /\ Len(retrievals) + listening <= MaxRetrievals
      BY <1>3 DEF Chat!CheckAndRetrieve
    <2> HIDE DEF new
    <2>3. retrievals' \in Seq(Retrieval) /\ Len(retrievals') <= MaxRetrievals
      BY <2>1, <2>2, <1>0
    <2> QED
      BY <1>3, <2>3 DEF Chat!CheckAndRetrieve, Retrieval
  <1>4. ASSUME NEW r \in DOMAIN retrievals, Chat!ShowPage(r) PROVE Chat!TypeOK'
    <2> DEFINE q == retrievals[r]
    <2>1. q \in Retrieval /\ q.got < q.upTo
      BY <1>4, <1>0 DEF Chat!ShowPage
    <2>2. messages' = messages \o PageOf(q) /\ retrievals' = [retrievals EXCEPT ![r].got = LastOf(q)]
      BY <1>4 DEF Chat!ShowPage, Chat!ReduceMessages, PageOf, LastOf
    <2>3. messages' \in Seq(1 .. posted)
      BY <2>1, <2>2, <1>0, PageType, ChatAssumption
    <2>4. LastOf(q) \in 0 .. posted
      BY <2>1, <1>0, PageType, ChatAssumption DEF Retrieval
    <2>5. [q EXCEPT !.got = LastOf(q)] \in Retrieval
      BY <2>1, <2>4 DEF Retrieval
    <2>6. retrievals' \in Seq(Retrieval) /\ Len(retrievals') = Len(retrievals)
      BY <2>2, <2>5, <1>0
    <2> QED
      BY <1>4, <2>3, <2>6 DEF Chat!ShowPage, Retrieval
  <1>5. ASSUME NEW r \in DOMAIN retrievals, Chat!Ended(r) PROVE Chat!TypeOK'
    <2> DEFINE q == retrievals[r]
    <2>0. q \in Retrieval
      BY <1>5, <1>0
    <2>1. [q EXCEPT !.open = FALSE] \in Retrieval
      BY <2>0 DEF Retrieval
    <2>2. retrievals' \in Seq(Retrieval) /\ Len(retrievals') = Len(retrievals)
      BY <1>5, <2>1, <1>0 DEF Chat!Ended
    <2> QED
      BY <1>5, <2>2 DEF Chat!Ended, Retrieval
  <1>6. ASSUME posted' = posted + 1, posted' <= MaxMessages
        PROVE  /\ posted' \in 0 .. MaxMessages /\ 1 .. posted \subseteq 1 .. posted' /\ posted' \in 1 .. posted'
               /\ Retrieval \subseteq Retrieval'
    BY <1>6, <1>0 DEF Retrieval
  <1>7. ASSUME NEW bound \in Nat, NEW m \in 1 .. bound, messages \in Seq(1 .. bound)
        PROVE  messages \o [n \in 1 .. observing |-> m] \in Seq(1 .. bound)
    <2>1. [n \in 1 .. observing |-> m] \in Seq(1 .. bound)
      OBVIOUS
    <2> QED
      BY <1>7, <2>1
  <1>8. CASE Chat!Post \/ Chat!HandleMessage
    <2>1. posted' = posted + 1 /\ posted' <= MaxMessages /\ transit' = transit \cup {posted'}
      BY <1>8, <1>0, ChatAssumption DEF Chat!Post, Chat!HandleMessage
    <2>2. messages \in Seq(1 .. posted') /\ retrievals \in Seq(Retrieval')
      BY <2>1, <1>6, <1>0
    <2>3. transit' \subseteq 1 .. posted'
      BY <2>1, <1>6
    <2> QED
      BY <1>8, <2>1, <2>2, <2>3, <1>6 DEF Chat!Post, Chat!HandleMessage, Retrieval
  <1>9. ASSUME NEW m \in transit, Chat!Arrive(m) PROVE Chat!TypeOK'
    <2>1. messages' = messages \/ messages' = messages \o [n \in 1 .. observing |-> m]
      BY <1>9 DEF Chat!Arrive, Chat!Heard, Chat!ReduceMessages
    <2>2. messages' \in Seq(1 .. posted)
      <3>1. m \in 1 .. posted
        BY <1>9
      <3> QED
        BY <2>1, <3>1, <1>0, <1>7
    <2> QED
      BY <1>9, <2>2 DEF Chat!Arrive
  <1> QED
    BY <1>1, <1>2, <1>3, <1>4, <1>5, <1>8, <1>9 DEF Chat!Next

(* The messages and the retrievals are always what they should be.          *)
THEOREM ChatTypeCorrect ==
    Chat!Spec => []Chat!TypeOK
  <1>1. Chat!Init => Chat!TypeOK
    <2>1. /\ [ready |-> FALSE, retrieved |-> FALSE] \in [ready : BOOLEAN, retrieved : BOOLEAN]
          /\ 0 \in 0 .. MaxMessages /\ Len(<<>>) <= MaxRetrievals
      BY ChatAssumption
    <2> SUFFICES ASSUME Chat!Init PROVE Chat!TypeOK
      OBVIOUS
    <2>2. retrievals \in Seq([upTo : 0 .. posted, got : 0 .. posted, open : BOOLEAN])
      BY DEF Chat!Init
    <2>3. messages \in Seq(1 .. posted)
      BY DEF Chat!Init
    <2> QED
      BY <2>1, <2>2, <2>3 DEF Chat!Init, Chat!TypeOK
  <1> QED
    BY <1>1, StepChatTyped, PTL DEF Chat!Spec

-----------------------------------------------------------------------------

(* The first g messages are in the list, in order. *)
Has(list, g) ==
    \E at \in [1 .. g -> DOMAIN list] :
        \A m, n \in 1 .. g : list[at[m]] = m /\ (m < n => at[m] < at[n])

LEMMA Appended ==
    ASSUME NEW list \in Seq(Nat), NEW more \in Seq(Nat)
    PROVE  /\ list \o more \in Seq(Nat) /\ Len(list \o more) = Len(list) + Len(more)
           /\ \A i \in 1 .. Len(list) : (list \o more)[i] = list[i]
           /\ \A i \in 1 .. Len(more) : (list \o more)[Len(list) + i] = more[i]
  OBVIOUS

(* They stay when something is appended, *)
LEMMA HasMore ==
    ASSUME NEW list \in Seq(Nat), NEW more \in Seq(Nat), NEW g \in Nat, Has(list, g)
    PROVE  Has(list \o more, g)
  <1> PICK at \in [1 .. g -> DOMAIN list] :
        \A m, n \in 1 .. g : list[at[m]] = m /\ (m < n => at[m] < at[n])
    BY DEF Has
  <1>1. \A i \in DOMAIN list : i \in DOMAIN (list \o more) /\ (list \o more)[i] = list[i]
    OBVIOUS
  <1>2. at \in [1 .. g -> DOMAIN (list \o more)]
    BY <1>1
  <1> QED
    BY <1>1, <1>2 DEF Has

(* and the page appended next has those after them. *)
LEMMA HasPage ==
    ASSUME NEW list \in Seq(Nat), NEW g \in Nat, NEW last \in Nat, g <= last, Has(list, g)
    PROVE  Has(list \o [n \in 1 .. last - g |-> g + n], last)
  <1> DEFINE rest == [n \in 1 .. last - g |-> g + n]
             all == list \o rest
  <1> PICK at \in [1 .. g -> DOMAIN list] :
        \A m, n \in 1 .. g : list[at[m]] = m /\ (m < n => at[m] < at[n])
    BY DEF Has
  <1>1. rest \in Seq(Nat) /\ Len(rest) = last - g /\ \A n \in 1 .. last - g : rest[n] = g + n
    OBVIOUS
  <1> HIDE DEF rest
  <1>2. /\ DOMAIN all = 1 .. Len(list) + (last - g)
        /\ \A i \in 1 .. Len(list) : all[i] = list[i]
        /\ \A n \in 1 .. last - g : all[Len(list) + n] = g + n
    <2>1. Len(list) \in Nat /\ last - g \in Nat
      OBVIOUS
    <2>2. /\ all \in Seq(Nat) /\ Len(all) = Len(list) + Len(rest)
          /\ \A i \in 1 .. Len(list) : all[i] = list[i]
          /\ \A i \in 1 .. Len(rest) : all[Len(list) + i] = rest[i]
      BY <1>1, Appended
    <2> HIDE DEF all
    <2>3. DOMAIN all = 1 .. Len(list) + (last - g)
      BY <1>1, <2>2
    <2>4. \A n \in 1 .. last - g : all[Len(list) + n] = g + n
      BY <1>1, <2>2
    <2> QED
      BY <2>2, <2>3, <2>4
  <1> HIDE DEF all
  <1> DEFINE at2 == [n \in 1 .. last |-> IF n <= g THEN at[n] ELSE Len(list) + (n - g)]
  <1>3. at2 \in [1 .. last -> DOMAIN all]
    <2>1. \A n \in 1 .. last : n <= g => at[n] \in 1 .. Len(list)
      OBVIOUS
    <2>2. \A n \in 1 .. last : at2[n] \in 1 .. Len(list) + (last - g)
      BY <2>1
    <2> QED
      BY <2>2, <1>2
  <1>4. \A m \in 1 .. last : all[at2[m]] = m
    <2>1. \A m \in 1 .. last : m > g => m - g \in 1 .. last - g /\ g + (m - g) = m
      OBVIOUS
    <2>2. \A m \in 1 .. last : m <= g => m \in 1 .. g /\ at[m] \in 1 .. Len(list)
      OBVIOUS
    <2>3. ASSUME NEW m \in 1 .. last, m <= g PROVE all[at2[m]] = m
      <3>1. at2[m] = at[m] /\ list[at[m]] = m
        BY <2>2, <2>3
      <3> QED
        BY <2>2, <2>3, <3>1, <1>2
    <2>4. ASSUME NEW m \in 1 .. last, m > g PROVE all[at2[m]] = m
      <3>1. at2[m] = Len(list) + (m - g)
        BY <2>4
      <3> QED
        BY <2>1, <2>4, <3>1, <1>2
    <2> QED
      BY <2>3, <2>4
  <1>5. \A m, n \in 1 .. last : m < n => at2[m] < at2[n]
    <2>1. \A m \in 1 .. g : at[m] \in 1 .. Len(list)
      OBVIOUS
    <2> QED
      BY <2>1
  <1> QED
    BY <1>3, <1>4, <1>5 DEF Has, all, rest

LEMMA StaysHas == Chat!HistoryStays <=> \A r \in DOMAIN retrievals : Has(messages, retrievals[r].got)
  BY DEF Chat!HistoryStays, Has

LEMMA StepStays ==
    ASSUME Chat!TypeOK, Chat!HistoryStays, [Chat!Next]_(Chat!vars)
    PROVE  Chat!HistoryStays'
  <1>0. /\ messages \in Seq(Nat) /\ posted \in Nat /\ retrievals \in Seq(Retrieval) /\ observing \in Nat
        /\ \A r \in DOMAIN retrievals : retrievals[r] \in Retrieval /\ retrievals[r].got \in Nat
    <2>1. posted \in Nat /\ retrievals \in Seq(Retrieval) /\ observing \in Nat
      BY DEF Chat!TypeOK, Retrieval
    <2>2. messages \in Seq(Nat)
      BY <2>1 DEF Chat!TypeOK
    <2>3. \A q \in Retrieval : q.got \in Nat
      BY <2>1 DEF Retrieval
    <2> QED
      BY <2>1, <2>2, <2>3
  <1>1. \A r \in DOMAIN retrievals : Has(messages, retrievals[r].got)
    BY StaysHas
  <1> SUFFICES \A r \in DOMAIN retrievals' : Has(messages', retrievals'[r].got)
    BY DEF Chat!HistoryStays, Has
  <1>2. CASE Chat!SetWaku \/ Chat!RunEffects \/ Chat!Post \/ Chat!HandleMessage \/ Chat!vars' = Chat!vars
    BY <1>1, <1>2 DEF Chat!SetWaku, Chat!RunEffects, Chat!Post, Chat!HandleMessage, Chat!vars
  <1>3. CASE Chat!CheckAndRetrieve
    <2>1. messages' = messages /\ Has(messages, 0)
      <3>1. messages' = messages
        BY <1>3 DEF Chat!CheckAndRetrieve
      <3>2. /\ [n \in 1 .. 0 |-> n] \in [1 .. 0 -> DOMAIN messages]
            /\ \A m \in 1 .. 0 : FALSE
        OBVIOUS
      <3>3. Has(messages, 0)
        BY <3>2 DEF Has
      <3> QED
        BY <3>1, <3>3
    <2>2. \A r \in DOMAIN retrievals' :
            \/ r \in DOMAIN retrievals /\ retrievals'[r] = retrievals[r]
            \/ retrievals'[r].got = 0
      <3> DEFINE new == [n \in 1 .. listening |-> [upTo |-> posted, got |-> 0, open |-> TRUE]]
      <3>1. new \in Seq(Retrieval) /\ Len(new) = listening /\ \A n \in 1 .. listening : new[n].got = 0
        BY <1>0 DEF Retrieval, Chat!TypeOK
      <3>2. retrievals' = retrievals \o new
        BY <1>3 DEF Chat!CheckAndRetrieve
      <3> HIDE DEF new
      <3> QED
        BY <3>1, <3>2, <1>0
    <2> QED
      BY <2>1, <2>2, <1>1
  <1>4. ASSUME NEW r \in DOMAIN retrievals, Chat!ShowPage(r)
        PROVE  \A x \in DOMAIN retrievals' : Has(messages', retrievals'[x].got)
    <2> DEFINE q == retrievals[r]
    <2>1. q \in Retrieval /\ q.got < q.upTo /\ q.got \in Nat
      BY <1>4, <1>0 DEF Chat!ShowPage
    <2>2. messages' = messages \o PageOf(q) /\ retrievals' = [retrievals EXCEPT ![r].got = LastOf(q)]
      BY <1>4 DEF Chat!ShowPage, Chat!ReduceMessages, PageOf, LastOf
    <2>3. LastOf(q) \in Nat /\ q.got <= LastOf(q) /\ PageOf(q) \in Seq(Nat)
      BY <2>1, <1>0, PageType, ChatAssumption
    <2>4. Has(messages', LastOf(q))
      BY <2>1, <2>2, <2>3, <1>0, <1>1, HasPage DEF PageOf
    <2>5. \A x \in DOMAIN retrievals : Has(messages', retrievals[x].got)
      BY <2>2, <2>3, <1>0, <1>1, HasMore
    <2>6. DOMAIN retrievals' = DOMAIN retrievals /\ retrievals'[r].got = LastOf(q)
      BY <2>1, <2>2, <1>0 DEF Retrieval
    <2>7. \A x \in DOMAIN retrievals : x # r => retrievals'[x] = retrievals[x]
      BY <2>2, <1>0
    <2> QED
      BY <2>4, <2>5, <2>6, <2>7
  <1>5. ASSUME NEW r \in DOMAIN retrievals, Chat!Ended(r)
        PROVE  \A x \in DOMAIN retrievals' : Has(messages', retrievals'[x].got)
    <2>1. /\ DOMAIN retrievals' = DOMAIN retrievals /\ messages' = messages
          /\ \A x \in DOMAIN retrievals : retrievals'[x].got = retrievals[x].got
      BY <1>5, <1>0 DEF Chat!Ended, Retrieval
    <2> QED
      BY <2>1, <1>1
  <1>6. ASSUME NEW m \in Nat, messages' = messages \/ messages' = Chat!Heard(m), retrievals' = retrievals
        PROVE  \A x \in DOMAIN retrievals' : Has(messages', retrievals'[x].got)
    <2> DEFINE more == [n \in 1 .. observing |-> m]
    <2>1. more \in Seq(Nat)
      BY <1>0
    <2>2. messages' = messages \/ messages' = messages \o more
      BY <1>6 DEF Chat!Heard, Chat!ReduceMessages
    <2> HIDE DEF more
    <2> QED
      BY <2>1, <2>2, <1>0, <1>1, <1>6, HasMore
  <1>7. ASSUME NEW m \in transit, Chat!Arrive(m)
        PROVE  \A x \in DOMAIN retrievals' : Has(messages', retrievals'[x].got)
    BY <1>7, <1>6 DEF Chat!Arrive, Chat!TypeOK
  <1> QED
    BY <1>2, <1>3, <1>4, <1>5, <1>7 DEF Chat!Next

(* Whatever is appended in between, what a retrieval was given stays shown  *)
(* in the order in which it was posted (App.tsx, reduceMessages).           *)
THEOREM HistoryIsKept ==
    MCSpec => []HistoryStays
  <1>1. Chat!Init => Chat!HistoryStays
    BY DEF Chat!Init, Chat!HistoryStays
  <1>2. Chat!TypeOK /\ Chat!HistoryStays /\ [Chat!Next]_(Chat!vars) => Chat!HistoryStays'
    BY StepStays
  <1>3. HistoryStays <=> Chat!HistoryStays
    BY DEF HistoryStays
  <1> QED
    BY <1>1, <1>2, <1>3, ChatTypeCorrect, PagesApart, PTL DEF Chat!Spec

=============================================================================

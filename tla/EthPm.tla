--------------------------------- MODULE EthPm ---------------------------------
(***************************************************************************)
(* One page of the two private message examples (examples/eth-pm and       *)
(* examples/eth-pm-wallet-encryption): the user connects a wallet, obtains *)
(* an encryption key, broadcasts it signed by the wallet, collects the     *)
(* signed keys of others, and exchanges messages sealed to those keys.  In *)
(* the first the page generates or loads the key and the relay decrypts;   *)
(* in the second the wallet holds the key and is asked to decrypt.         *)
(*                                                                         *)
(* The keys and observers of the relay are set by React effects, which run *)
(* some time after the state they depend on has changed (RunEffects); the  *)
(* wallet's answers and the decodes come later than that, in any order.    *)
(***************************************************************************)
EXTENDS Naturals, Sequences, FiniteSets

CONSTANTS
    Account,      \* addresses of the wallet's accounts
    MixedCase,    \* addresses that the wallets spell in mixed case
    KeyPair,      \* the key pair that this page generates
    Loaded,       \* what loading a key pair gives: JSON, whose keys are no arrays
    Foreign,      \* announcements that others send, with the signer
    None,
    MaxPrivate,   \* bound on the private messages that reach the page
    MaxConnects,  \* bound on the wallet connections
    MaxPending    \* bound on what is asked and on what is being decoded

ASSUME EthPmAssumption ==
    /\ {KeyPair, Loaded, None} \cap Account = {}
    /\ KeyPair # Loaded /\ KeyPair # None /\ Loaded # None
    /\ \A f \in Foreign :
        /\ f = [address |-> f.address, key |-> f.key, signer |-> f.signer]
        /\ f.address \notin Account
    /\ MaxPrivate \in Nat /\ MaxConnects \in Nat /\ MaxPending \in Nat

VARIABLES
    wallet,     \* the example is that with wallet encryption
    node,       \* initWaku: "creating", "waiting" for a peer, "ready" or "failed"
    page,       \* the state of the page: address, key and publicKeyMsg
    ran,        \* what the effects depended on when they ran last
    publicObs,  \* observers of public key messages: the addresses they are bound to
    privateObs, \* observers of private messages: the addresses they are bound to
    asked,      \* what the wallet has been asked, and loads that have not ended
    decoding,   \* decodes that have not resolved
    announced,  \* the public key messages pushed
    recipients, \* publicKeys: the key last seen for each address
    arrived,    \* the private messages that reached the page
    shown,      \* shown[n]: how often message n of arrived is shown
    connects    \* wallet connections so far

vars == <<wallet, node, page, ran, publicObs, privateObs, asked, decoding, announced,
          recipients, arrived, shown, connects>>

Address == Account \cup {f.address : f \in Foreign}

(* An announcement; the signature is the account that signed it. *)
Announcement(address, key) == [address |-> address, key |-> key, signer |-> address]

Deps == [ready |-> node = "ready", address |-> page.address, key |-> page.key]

Init ==
    /\ wallet \in BOOLEAN
    /\ node = "creating"
    /\ page = [address |-> None, key |-> None, msg |-> None]
    /\ ran = [ready |-> FALSE, address |-> None, key |-> None]
    /\ publicObs = <<>> /\ privateObs = <<>>
    /\ asked = {} /\ decoding = {}
    /\ announced = {}
    /\ recipients = [a \in Address |-> None]
    /\ arrived = <<>> /\ shown = [n \in 1 .. MaxPrivate |-> 0]
    /\ connects = 0

-----------------------------------------------------------------------------
(* The node: it listens for a peer only once create has resolved, and is    *)
(* given up after ten seconds; the effect is not run again for a failure,   *)
(* be it of create or of the wait.                                          *)

CreateFails ==
    /\ node = "creating"
    /\ node' = "failed"
    /\ UNCHANGED <<wallet, page, ran, publicObs, privateObs, asked, decoding, announced,
                   recipients, arrived, shown, connects>>

Created ==
    /\ node = "creating"
    /\ node' = "waiting"
    /\ UNCHANGED <<wallet, page, ran, publicObs, privateObs, asked, decoding, announced,
                   recipients, arrived, shown, connects>>

PeerConnects ==
    /\ node = "waiting"
    /\ node' = "ready"
    /\ UNCHANGED <<wallet, page, ran, publicObs, privateObs, asked, decoding, announced,
                   recipients, arrived, shown, connects>>

(* Mutant of GivesUp: no timeout. *)
NeverGivesUp == FALSE
GivesUp == node = "waiting"

TimeOut ==
    /\ GivesUp
    /\ node' = "failed"
    /\ UNCHANGED <<wallet, page, ran, publicObs, privateObs, asked, decoding, announced,
                   recipients, arrived, shown, connects>>

-----------------------------------------------------------------------------
(* The effects. *)

(* The relay's decryption keys; the topic's key counts as one of them. *)
Keys == IF ran.ready THEN {ran.key} \ {None} ELSE {}

PublicOf(deps) == IF deps.ready THEN <<deps.address>> ELSE <<>>

PrivateOf(deps) ==
    IF deps.ready /\ deps.address # None /\ (wallet \/ deps.key # None)
    THEN <<deps.address>> ELSE <<>>

(* Mutant of Cleaned: the observer registered last time stays. *)
NotCleaned(observers, last) == observers

(* cleanUp: the observer registered last time is deleted. *)
Cleaned(observers, last) == SubSeq(observers, 1, Len(observers) - Len(last))

(* The effects whose dependencies changed: first what cleans up after their *)
(* last run, then the effects.                                              *)
RunEffects ==
    /\ ran # Deps
    /\ publicObs' = Cleaned(publicObs, PublicOf(ran)) \o PublicOf(Deps)
    /\ privateObs' = Cleaned(privateObs, PrivateOf(ran)) \o PrivateOf(Deps)
    /\ ran' = Deps
    /\ UNCHANGED <<wallet, node, page, asked, decoding, announced, recipients, arrived, shown, connects>>

-----------------------------------------------------------------------------
(* The user and the wallet. *)

ConnectWallet(a) ==
    /\ connects < MaxConnects
    /\ connects' = connects + 1
    /\ page' = [page EXCEPT !.address = a]
    /\ UNCHANGED <<wallet, node, ran, publicObs, privateObs, asked, decoding, announced,
                   recipients, arrived, shown>>

GenerateKeyPair ==
    /\ ~wallet /\ page.key = None
    /\ page' = [page EXCEPT !.key = KeyPair]
    /\ UNCHANGED <<wallet, node, ran, publicObs, privateObs, asked, decoding, announced,
                   recipients, arrived, shown, connects>>

(* loadKeyPair, with a pair saved in an earlier visit; the page may have    *)
(* generated one when the load ends.                                        *)
LoadKeyPair ==
    /\ Cardinality(asked) < MaxPending
    /\ ~wallet /\ page.key = None
    /\ asked' = asked \cup {[method |-> "load"]}
    /\ UNCHANGED <<wallet, node, page, ran, publicObs, privateObs, decoding, announced,
                   recipients, arrived, shown, connects>>

RequestPublicKey ==
    /\ Cardinality(asked) < MaxPending
    /\ wallet /\ page.address # None
    /\ asked' = asked \cup {[method |-> "key", address |-> page.address]}
    /\ UNCHANGED <<wallet, node, page, ran, publicObs, privateObs, decoding, announced,
                   recipients, arrived, shown, connects>>

(* broadcastPublicKey without a message it has kept: the wallet is asked to *)
(* sign.  A loaded key is no array: building what is to be signed throws.   *)
AskToSign ==
    /\ Cardinality(asked) < MaxPending
    /\ node = "ready" /\ page.address # None /\ page.key \notin {None, Loaded}
    /\ page.msg = None
    /\ asked' = asked \cup {[method |-> "sign", address |-> page.address, key |-> page.key]}
    /\ UNCHANGED <<wallet, node, page, ran, publicObs, privateObs, decoding, announced,
                   recipients, arrived, shown, connects>>

(* broadcastPublicKey with a message it has kept, whatever the page holds   *)
(* by now.                                                                  *)
PushKept ==
    /\ node = "ready" /\ page.address # None /\ page.key # None
    /\ page.msg # None
    /\ announced' = announced \cup {page.msg}
    /\ UNCHANGED <<wallet, node, page, ran, publicObs, privateObs, asked, decoding,
                   recipients, arrived, shown, connects>>

(* A request ends without a result: the user rejects it, the password is    *)
(* wrong, the cipher text does not open.                                    *)
Rejected(q) ==
    /\ q \in asked
    /\ asked' = asked \ {q}
    /\ UNCHANGED <<wallet, node, page, ran, publicObs, privateObs, decoding, announced,
                   recipients, arrived, shown, connects>>

(* setEncryptionKeyPair or setEncPublicKey; the wallet's key of an account  *)
(* is written as the account.                                               *)
KeyArrives(q) ==
    /\ q \in asked /\ q.method \in {"load", "key"}
    /\ asked' = asked \ {q}
    /\ page' = [page EXCEPT !.key = IF q.method = "load" THEN Loaded ELSE q.address]
    /\ UNCHANGED <<wallet, node, ran, publicObs, privateObs, decoding, announced,
                   recipients, arrived, shown, connects>>

(* The wallet signed: the first example keeps the message, both push it. *)
Signed(q) ==
    /\ q \in asked /\ q.method = "sign"
    /\ asked' = asked \ {q}
    /\ LET msg == Announcement(q.address, q.key) IN
       /\ announced' = announced \cup {msg}
       /\ page' = IF wallet THEN page ELSE [page EXCEPT !.msg = msg]
    /\ UNCHANGED <<wallet, node, ran, publicObs, privateObs, decoding, recipients,
                   arrived, shown, connects>>

-----------------------------------------------------------------------------
(* Public key messages. *)

(* Mutant of Valid: the signature is not looked at. *)
AnyValid(msg) == TRUE

(* validatePublicKeyMessage recovers the signer of a text with the address  *)
(* in lower case, while the wallet signed it as it spells it.               *)
Valid(msg) == msg.signer = msg.address /\ msg.address \notin MixedCase

(* handlePublicKeyMessage, by every observer: an own announcement is left.  *)
Collected(msg) ==
    IF Valid(msg) /\ \E i \in DOMAIN publicObs : publicObs[i] # msg.address
    THEN [recipients EXCEPT ![msg.address] = msg.key] ELSE recipients

(* A public key message arrives.  In the first example it is sealed with    *)
(* the key of the topic, and handled when the decode ends.                  *)
ReceivePublic(msg) ==
    /\ node # "creating"
    /\ IF wallet THEN recipients' = Collected(msg) /\ UNCHANGED decoding
       ELSE /\ ran.ready /\ Cardinality(decoding) < MaxPending
            /\ decoding' = decoding \cup {[kind |-> "public", msg |-> msg]}
            /\ UNCHANGED recipients
    /\ UNCHANGED <<wallet, node, page, ran, publicObs, privateObs, asked, announced,
                   arrived, shown, connects>>

HandlePublic(job) ==
    /\ job \in decoding /\ job.kind = "public"
    /\ decoding' = decoding \ {job}
    /\ recipients' = Collected(job.msg)
    /\ UNCHANGED <<wallet, node, page, ran, publicObs, privateObs, asked, announced,
                   arrived, shown, connects>>

-----------------------------------------------------------------------------
(* Private messages. *)

(* A message sealed to an announcement of this page.  The relay decodes it  *)
(* with the keys it holds now; in the second example the wallet is asked,   *)
(* by every observer, for the address it is bound to.                       *)
ReceivePrivate(msg) ==
    /\ Valid(msg) /\ Len(arrived) < MaxPrivate
    /\ Cardinality(asked) < MaxPending /\ Cardinality(decoding) < MaxPending
    /\ arrived' = Append(arrived, msg)
    /\ LET n == Len(arrived) + 1 IN
       IF wallet
       THEN /\ asked' = asked \cup {[method |-> "decrypt", n |-> n, by |-> i,
                                     address |-> privateObs[i]] : i \in DOMAIN privateObs}
            /\ UNCHANGED decoding
       ELSE /\ decoding' = IF msg.key \in Keys
                           THEN decoding \cup {[kind |-> "private", n |-> n]} ELSE decoding
            /\ UNCHANGED asked
    /\ UNCHANGED <<wallet, node, page, ran, publicObs, privateObs, announced,
                   recipients, shown, connects>>

(* handlePrivateMessage shows what is addressed to the address it is bound  *)
(* to.                                                                      *)
HandlePrivate(job) ==
    /\ job \in decoding /\ job.kind = "private"
    /\ decoding' = decoding \ {job}
    /\ LET n == job.n
           mine == {i \in DOMAIN privateObs : privateObs[i] = arrived[n].address} IN
       shown' = [shown EXCEPT ![n] = @ + Cardinality(mine)]
    /\ UNCHANGED <<wallet, node, page, ran, publicObs, privateObs, asked, announced,
                   recipients, arrived, connects>>

(* The wallet decrypted: it can when the message is sealed to its key of    *)
(* the address it was asked for.                                            *)
Decrypted(q) ==
    /\ q \in asked /\ q.method = "decrypt"
    /\ arrived[q.n].key = q.address
    /\ asked' = asked \ {q}
    /\ shown' = IF arrived[q.n].address = q.address
                THEN [shown EXCEPT ![q.n] = @ + 1] ELSE shown
    /\ UNCHANGED <<wallet, node, page, ran, publicObs, privateObs, decoding, announced,
                   recipients, arrived, connects>>

-----------------------------------------------------------------------------

Next ==
    \/ CreateFails \/ Created \/ PeerConnects \/ TimeOut \/ RunEffects
    \/ \E a \in Account : ConnectWallet(a)
    \/ GenerateKeyPair \/ LoadKeyPair \/ RequestPublicKey \/ AskToSign \/ PushKept
    \/ \E q \in asked : Rejected(q) \/ KeyArrives(q) \/ Signed(q) \/ Decrypted(q)
    \/ \E msg \in Foreign \cup announced : ReceivePublic(msg)
    \/ \E msg \in announced : ReceivePrivate(msg)
    \/ \E job \in decoding : HandlePublic(job) \/ HandlePrivate(job)

(* create ends, and so does the wait for a peer. *)
Fairness == WF_vars(Created) /\ WF_vars(TimeOut)

Spec == Init /\ [][Next]_vars /\ Fairness

-----------------------------------------------------------------------------

OwnKey == Account \cup {KeyPair}
PageKey == OwnKey \cup {Loaded, None}
Own == {Announcement(a, k) : a \in Account, k \in OwnKey}

Question ==
    [method : {"load"}] \cup [method : {"key"}, address : Account]
    \cup [method : {"sign"}, address : Account, key : OwnKey]
    \cup [method : {"decrypt"}, n : 1 .. Len(arrived), by : Nat, address : Account]

Job == [kind : {"public"}, msg : Foreign \cup announced] \cup [kind : {"private"}, n : 1 .. Len(arrived)]

TypeOK ==
    /\ wallet \in BOOLEAN
    /\ node \in {"creating", "waiting", "ready", "failed"}
    /\ page \in [address : Account \cup {None}, key : PageKey, msg : announced \cup {None}]
    /\ ran \in [ready : BOOLEAN, address : Account \cup {None}, key : PageKey]
    /\ announced \subseteq Own
    /\ asked \subseteq Question
    /\ decoding \subseteq Job
    /\ recipients \in [Address -> OwnKey \cup {f.key : f \in Foreign} \cup {None}]
    /\ arrived \in Seq(Own) /\ Len(arrived) <= MaxPrivate
    /\ shown \in [1 .. MaxPrivate -> Nat]
    /\ connects \in 0 .. MaxConnects

(* Whatever the page would seal for an address (SendMessage takes the key   *)
(* it has collected) is sealed to a key that the holder of the address      *)
(* signed: announcements are validated before they are collected (waku.ts,  *)
(* handlePublicKeyMessage), through all the replacements of a recipient's   *)
(* key, the decodes that end out of order and the own announcements that    *)
(* come back after a change of account.                                     *)
RecipientsSigned ==
    \A a \in Address : recipients[a] # None =>
        [address |-> a, key |-> recipients[a], signer |-> a] \in Foreign \cup announced

(* No private message is shown twice, however often the user changes the    *)
(* account, the key arrives and the effects register their observers again: *)
(* each run of an effect in App.tsx deletes the observer of the one before. *)
ShownOnce == \A n \in DOMAIN shown : shown[n] <= 1

(* initWaku does not wait for ever (waku.ts): once the page is there, the   *)
(* node becomes ready or is given up.                                       *)
StartsOrFails == node = "creating" ~> node \in {"ready", "failed"}

=============================================================================

---------------------------- MODULE RelayObservers ----------------------------
(***************************************************************************)
(* Delivery of received messages to observers by WakuRelay                 *)
(* (src/lib/waku_relay/index.ts): every call of subscribe registers one    *)
(* more listener for the pubsub topic, the listener starts an asynchronous *)
(* decode with the keys held at that moment, and when the decode resolves  *)
(* the observers registered by then are called.                            *)
(*                                                                         *)
(* A decode job runs concurrently with everything else.  A message that is *)
(* not encrypted is decoded without waiting for anything (decodeProto      *)
(* awaits only version 1 payloads), so its job ends before that of any     *)
(* later message; encrypted messages end in any order.                     *)
(***************************************************************************)
EXTENDS Naturals, FiniteSets, Sequences, SequencesExt

CONSTANTS
    Callback,      \* functions registered as observers
    Throwing,      \* those that throw when they are called
    ContentTopic,  \* content topics, other than the empty string
    All,           \* the empty string, under which observers see every message
    NoTopic,       \* a message without a content topic
    Key,           \* decryption keys, symmetric or private
    Clear,         \* a message that is not encrypted
    Sent,          \* the messages that peers send, as to topic and encryption
    MaxMessages,   \* bound on the messages received
    MaxListeners   \* bound on the listeners registered, each by one subscribe

ASSUME ObserversAssumption ==
    /\ Throwing \subseteq Callback
    /\ All \notin ContentTopic /\ NoTopic \notin ContentTopic
    /\ Clear \notin Key
    /\ Sent \subseteq [topic : ContentTopic \cup {NoTopic}, lock : Key \cup {Clear}]
    /\ MaxMessages \in Nat /\ MaxListeners \in Nat

Slot == ContentTopic \cup {All}

VARIABLES
    started,    \* the router runs
    listeners,  \* listeners registered for the pubsub topic
    observers,  \* observers[slot]: a Set, in insertion order
    keys,       \* decryptionKeys
    received,   \* the messages received so far, with the keys held then
    jobs,       \* decodes that have not resolved: <<message, listener>>
    calls       \* calls[cb]: the messages cb was called with, in order

vars == <<started, listeners, observers, keys, received, jobs, calls>>

TypeOK ==
    /\ started \in BOOLEAN
    /\ listeners \in 0 .. MaxListeners
    /\ \A s \in Slot : ToSet(observers[s]) \subseteq Callback /\ IsInjective(observers[s])
    /\ keys \subseteq Key
    /\ Len(received) <= MaxMessages
    /\ \A i \in DOMAIN received : [topic |-> received[i].topic, lock |-> received[i].lock] \in Sent
    /\ jobs \subseteq (DOMAIN received) \X (1 .. listeners)
    /\ \A cb \in Callback : ToSet(calls[cb]) \subseteq DOMAIN received

Init ==
    /\ started = FALSE /\ listeners = 0
    /\ observers = [s \in Slot |-> <<>>]
    /\ keys = {}
    /\ received = <<>> /\ jobs = {}
    /\ calls = [cb \in Callback |-> <<>>]

-----------------------------------------------------------------------------
(* Mutant of Add: an array, which takes the same callback twice. *)
Push(set, x) == Append(set, x)

(* Set.add and Set.delete of JavaScript, whose sets keep insertion order. *)
Add(set, x) == IF x \in ToSet(set) THEN set ELSE Append(set, x)
Delete(set, x) ==
    IF x \in ToSet(set) THEN RemoveAt(set, CHOOSE n \in DOMAIN set : set[n] = x) ELSE set

(* Mutant of KeysFor: the live Set instead of a copy of it. *)
LiveKeys(i) == keys

(* The keys a decode started for message i uses: a copy of decryptionKeys.  *)
KeysFor(i) == received[i].keys

Opens(i) == received[i].lock = Clear \/ received[i].lock \in KeysFor(i)

(* Mutant of CalledFor: the content topic of the message is not looked at.  *)
OnlyAll(i) == observers[All]

(* The observers called for message i now: those under "" and those under   *)
(* its content topic, until one throws.                                     *)
CalledFor(i) ==
    observers[All] \o (IF received[i].topic = NoTopic THEN <<>> ELSE observers[received[i].topic])

UntilThrow(cbs) ==
    IF \E n \in DOMAIN cbs : cbs[n] \in Throwing
    THEN SubSeq(cbs, 1, CHOOSE n \in DOMAIN cbs :
            cbs[n] \in Throwing /\ \A m \in 1 .. n - 1 : cbs[m] \notin Throwing)
    ELSE cbs

(* Mutant of MayResolve: decodes end in any order. *)
AnyOrder(job) == job \in jobs

(* A decode that awaits nothing is through before that of a later message.  *)
MayResolve(job) ==
    job \in jobs /\ \A other \in jobs : received[other[1]].lock = Clear => other[1] >= job[1]

Times(seq, x) == Cardinality({n \in DOMAIN seq : seq[n] = x})

-----------------------------------------------------------------------------

(* subscribe: the listener is registered first, so that it stays when the   *)
(* router does not run and join throws.                                     *)
Subscribe ==
    /\ listeners < MaxListeners
    /\ listeners' = listeners + 1
    /\ UNCHANGED <<started, observers, keys, received, jobs, calls>>

(* start: the router's own start, which does nothing to one that runs, and  *)
(* in any case subscribe.                                                   *)
Start ==
    /\ listeners < MaxListeners
    /\ started' = TRUE
    /\ listeners' = listeners + 1
    /\ UNCHANGED <<observers, keys, received, jobs, calls>>

(* The router's stop, which leaves the listeners registered. *)
Stop ==
    /\ started
    /\ started' = FALSE
    /\ UNCHANGED <<listeners, observers, keys, received, jobs, calls>>

AddObserver(cb, slots) ==
    /\ observers' = [s \in Slot |-> IF s \in slots THEN Add(observers[s], cb) ELSE observers[s]]
    /\ UNCHANGED <<started, listeners, keys, received, jobs, calls>>

DeleteObserver(cb, slots) ==
    /\ observers' = [s \in Slot |-> IF s \in slots THEN Delete(observers[s], cb) ELSE observers[s]]
    /\ UNCHANGED <<started, listeners, keys, received, jobs, calls>>

AddDecryptionKey(k) ==
    /\ keys' = keys \cup {k}
    /\ UNCHANGED <<started, listeners, observers, received, jobs, calls>>

DeleteDecryptionKey(k) ==
    /\ keys' = keys \ {k}
    /\ UNCHANGED <<started, listeners, observers, received, jobs, calls>>

(* The event of a received message: every listener starts a decode. *)
Receive(m) ==
    /\ started /\ Len(received) < MaxMessages
    /\ received' = Append(received, [topic |-> m.topic, lock |-> m.lock, keys |-> keys])
    /\ jobs' = jobs \cup {<<Len(received) + 1, l>> : l \in 1 .. listeners}
    /\ UNCHANGED <<started, listeners, observers, keys, calls>>

(* A decode resolves; undefined or an error calls nobody. *)
Resolve(job) ==
    /\ MayResolve(job)
    /\ jobs' = jobs \ {job}
    /\ calls' = IF Opens(job[1])
                THEN LET called == UntilThrow(CalledFor(job[1])) IN
                     [cb \in Callback |->
                        calls[cb] \o [n \in 1 .. Times(called, cb) |-> job[1]]]
                ELSE calls
    /\ UNCHANGED <<started, listeners, observers, keys, received>>

Next ==
    \/ Start \/ Subscribe \/ Stop
    \/ \E cb \in Callback, slots \in (SUBSET Slot) \ {{}} :
          AddObserver(cb, slots) \/ DeleteObserver(cb, slots)
    \/ \E k \in Key : AddDecryptionKey(k) \/ DeleteDecryptionKey(k)
    \/ \E m \in Sent : Receive(m)
    \/ \E job \in jobs : Resolve(job)

(* A promise that can resolve is resolved by the event loop. *)
Spec == Init /\ [][Next]_vars /\ WF_vars(\E job \in jobs : Resolve(job))

-----------------------------------------------------------------------------
(* What the component promises *)

(* An observer sees an encrypted message only if its key was held when the  *)
(* message arrived: adding a key while the decode runs opens nothing, and   *)
(* deleting it then does not revoke it.                                     *)
KeysAtReceipt ==
    \A cb \in Callback : \A i \in ToSet(calls[cb]) :
        received[i].lock # Clear => received[i].lock \in received[i].keys

(* One resolved decode calls an observer once for each of the two places it *)
(* may be registered in, however often it was registered there; so a        *)
(* message reaches it at most twice per listener.                           *)
CallsBounded ==
    \A cb \in Callback : \A i \in DOMAIN received :
        Times(calls[cb], i) <= 2 * (listeners - Cardinality({j \in jobs : j[1] = i}))

(* Unencrypted messages reach each observer in the order of their arrival,  *)
(* also when encrypted ones arrive in between.                              *)
ClearInOrder ==
    \A cb \in Callback : \A m, n \in DOMAIN calls[cb] :
        m < n /\ received[calls[cb][m]].lock = Clear /\ received[calls[cb][n]].lock = Clear
            => calls[cb][m] <= calls[cb][n]

(* A message that opens reaches every observer of its content topic that    *)
(* stays registered until then, unless another that throws is about.        *)
Reached(i, cb) == Times(calls[cb], i) > 0
Registered(i, cb) ==
    /\ i \in DOMAIN received /\ received[i].topic # NoTopic
    /\ cb \in ToSet(observers[received[i].topic])
Decoding(i) ==
    /\ i \in DOMAIN received /\ \E l \in 1 .. listeners : <<i, l>> \in jobs
    /\ received[i].lock \in received[i].keys \cup {Clear}
Served ==
    \A i \in 1 .. MaxMessages, cb \in Callback :
        Decoding(i) /\ Registered(i, cb) ~>
            \/ Reached(i, cb) \/ ~Registered(i, cb)
            \/ \E s \in Slot : (ToSet(observers[s]) \cap Throwing) \ {cb} # {}

=============================================================================

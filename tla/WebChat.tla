-------------------------------- MODULE WebChat --------------------------------
(***************************************************************************)
(* The page of the web-chat example (examples/web-chat/src/App.tsx): when  *)
(* a peer turns out to have the store protocol, the page queries the       *)
(* history of the chat, and shows what it gets, one page of the answer     *)
(* after the other; it observes new messages from then on.                 *)
(*                                                                         *)
(* Whether the history has been asked for is React state, which is set     *)
(* before the query starts; the listener of the peer store is removed and  *)
(* the observer added by effects, which run some time later (RunEffects).  *)
(***************************************************************************)
EXTENDS Naturals, Sequences

CONSTANTS
    PageSize,      \* messages per page of the history
    MaxMessages,   \* bound on the messages posted
    MaxRetrievals  \* bound on the retrievals started

VARIABLES
    ready,      \* waku is set
    retrieved,  \* historicalMessagesRetrieved
    ranWith,    \* what the effects last ran with: ready and retrieved
    listening,  \* checkAndRetrieve listens to change:protocols, so many times
    observing,  \* handleRelayMessage observes the topic, so many times
    posted,     \* how many messages have been posted, all of which a store has
    transit,    \* those that have not reached the page by relay, or are decoded by it
    retrievals, \* the retrievals started: what is asked for, and shown so far
    messages    \* the messages shown, in order

vars == <<ready, retrieved, ranWith, listening, observing, posted, transit, retrievals, messages>>

Deps == [ready |-> ready, retrieved |-> retrieved]

Init ==
    /\ ready = FALSE /\ retrieved = FALSE
    /\ ranWith = [ready |-> FALSE, retrieved |-> FALSE]
    /\ listening = 0 /\ observing = 0
    /\ posted = 0 /\ transit = {}
    /\ retrievals = <<>> /\ messages = <<>>

-----------------------------------------------------------------------------

(* Mutant of ReduceMessages: the list is what was received last. *)
TakeLatest(state, new) == new
ReduceMessages(state, new) == state \o new

(* Mutant of Kept: the effect has no cleanup. *)
KeptFor(count, deps) == count

(* cleanUp: what the effect of the given run has registered is removed. *)
Kept(count, deps) == 0

(* initWaku resolves; when it fails the page stays without a node. *)
SetWaku ==
    /\ ~ready
    /\ ready' = TRUE
    /\ UNCHANGED <<retrieved, ranWith, listening, observing, posted, transit, retrievals, messages>>

(* The effects that depend on the node and on the flag. *)
RunEffects ==
    /\ ranWith # Deps
    /\ observing' = Kept(observing, ranWith) + (IF ready /\ retrieved THEN 1 ELSE 0)
    /\ listening' = Kept(listening, ranWith) + (IF ready /\ ~retrieved THEN 1 ELSE 0)
    /\ ranWith' = Deps
    /\ UNCHANGED <<ready, retrieved, posted, transit, retrievals, messages>>

(* change:protocols with the store protocol: every listener sets the flag   *)
(* and starts a retrieval of what has been posted until now.                *)
CheckAndRetrieve ==
    /\ listening > 0
    /\ Len(retrievals) + listening <= MaxRetrievals
    /\ retrieved' = TRUE
    /\ retrievals' = retrievals \o [n \in 1 .. listening |-> [upTo |-> posted, got |-> 0, open |-> TRUE]]
    /\ UNCHANGED <<ready, ranWith, listening, observing, posted, transit, messages>>

(* The callback of queryHistory, with the next page. *)
ShowPage(r) ==
    LET q == retrievals[r]
        last == IF q.got + PageSize < q.upTo THEN q.got + PageSize ELSE q.upTo IN
    /\ q.open /\ q.got < q.upTo
    /\ retrievals' = [retrievals EXCEPT ![r].got = last]
    /\ messages' = ReduceMessages(messages, [n \in 1 .. last - q.got |-> q.got + n])
    /\ UNCHANGED <<ready, retrieved, ranWith, listening, observing, posted, transit>>

(* The query ends, or it rejects after some pages: that is logged, and not  *)
(* tried again.                                                             *)
Ended(r) ==
    /\ retrievals[r].open
    /\ retrievals' = [retrievals EXCEPT ![r].open = FALSE]
    /\ UNCHANGED <<ready, retrieved, ranWith, listening, observing, posted, transit, messages>>

(* Someone else posts a message. *)
Post ==
    /\ posted < MaxMessages
    /\ posted' = posted + 1
    /\ transit' = transit \cup {posted + 1}
    /\ UNCHANGED <<ready, retrieved, ranWith, listening, observing, retrievals, messages>>

(* The message is handed to the observers there are. *)
Heard(m) == ReduceMessages(messages, [n \in 1 .. observing |-> m])

(* handleRelayMessage. *)
Arrive(m) ==
    /\ transit' = transit \ {m}
    /\ messages' = IF observing > 0 THEN Heard(m) ELSE messages
    /\ UNCHANGED <<ready, retrieved, ranWith, listening, observing, posted, retrievals>>

(* handleMessage of Room.tsx, from where its await for the message ends: it *)
(* is sent, and the relay emits it to the page itself as well, where it is  *)
(* decoded like those of others.                                            *)
HandleMessage ==
    /\ ready /\ posted < MaxMessages
    /\ posted' = posted + 1
    /\ transit' = transit \cup {posted + 1}
    /\ UNCHANGED <<ready, retrieved, ranWith, listening, observing, retrievals, messages>>

Next ==
    \/ SetWaku \/ RunEffects \/ CheckAndRetrieve
    \/ \E r \in DOMAIN retrievals : ShowPage(r) \/ Ended(r)
    \/ Post \/ HandleMessage
    \/ \E m \in transit : Arrive(m)

Spec == Init /\ [][Next]_vars

-----------------------------------------------------------------------------

TypeOK ==
    /\ ready \in BOOLEAN /\ retrieved \in BOOLEAN
    /\ ranWith \in [ready : BOOLEAN, retrieved : BOOLEAN]
    /\ listening \in Nat /\ observing \in Nat
    /\ posted \in 0 .. MaxMessages /\ transit \subseteq 1 .. posted
    /\ retrievals \in Seq([upTo : 0 .. posted, got : 0 .. posted, open : BOOLEAN])
    /\ Len(retrievals) <= MaxRetrievals
    /\ messages \in Seq(1 .. posted)

(* What a retrieval was given stays shown, in the order it was posted,      *)
(* whatever arrives in between: pages of the history, of a second retrieval *)
(* and new messages are appended to one list (App.tsx, reduceMessages).     *)
HistoryStays ==
    \A r \in DOMAIN retrievals :
        \E at \in [1 .. retrievals[r].got -> DOMAIN messages] :
            \A m, n \in 1 .. retrievals[r].got :
                messages[at[m]] = m /\ (m < n => at[m] < at[n])

(* A store peer that is seen again before the effects have run starts a     *)
(* second retrieval, and the history is shown twice; but once they have     *)
(* run, the listener is gone and no retrieval starts any more (App.tsx,     *)
(* checkAndRetrieve and its cleanup).                                       *)
NoRetrievalOnceObserving == [][observing > 0 => Len(retrievals') = Len(retrievals)]_vars

=============================================================================

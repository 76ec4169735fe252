------------------------------- MODULE StoreQuery -------------------------------
(***************************************************************************)
(* WakuStore.queryHistory (src/lib/waku_store/index.ts) against a store    *)
(* peer: the choice of the peer (src/lib/select_peer.ts), the request of   *)
(* page after page, the concurrent decodes of a page, the callback, and    *)
(* the ways to end.                                                        *)
(*                                                                         *)
(* A query shares nothing with other queries, so there is one.  The peers  *)
(* are external: all keep the same messages, answer a request with the     *)
(* next messages after the cursor, in order of time, at most ServerMax of  *)
(* them, and with a cursor at the end of the page, or leave the paging     *)
(* information out.                                                        *)
(***************************************************************************)
EXTENDS Naturals, FiniteSets, Sequences, SequencesExt

CONSTANTS
    Peer,         \* the peers of the network
    AnyPeer,      \* the peerId option is not given
    Clear,        \* a message that is not encrypted
    Mine,         \* one that a key of the query opens
    Foreign,      \* one that no key opens, or without a payload
    Broken,       \* one that a key opens and clearDecode throws on
    Kind,         \* those of the four that are stored
    Forward,      \* Direction.FORWARD
    Backward,     \* Direction.BACKWARD
    PageSizes,    \* the page sizes asked for
    ServerMax,    \* the largest page a peer returns
    MaxMessages   \* bound on the messages stored

ASSUME QueryAssumption ==
    /\ AnyPeer \notin Peer
    /\ Kind \subseteq {Clear, Mine, Foreign, Broken}
    /\ Cardinality({Clear, Mine, Foreign, Broken}) = 4
    /\ Forward # Backward
    /\ PageSizes \subseteq Nat \ {0} /\ PageSizes # {}
    /\ ServerMax \in Nat \ {0} /\ MaxMessages \in Nat

VARIABLES
    known,         \* peers in the peer store
    registered,    \* those of them known to register StoreCodec
    connected,     \* peers of the connection manager
    log,           \* kinds of the messages ever stored, in order of time
    oldest,        \* the first message that is still stored
    status,        \* where queryHistory is
    dir, pageSize, \* its options
    server,        \* the peer whose connection it uses
    alive,         \* that connection is still open
    cursor,        \* the cursor of the next request, NoCursor if undefined
    pageInfo,      \* pageSize and cursor of the reply at hand
    page,          \* messages of the page that are still being decoded
    pageMessages,  \* those decoded, in order of completion
    messages,      \* all messages decoded
    delivered,     \* the messages the callback was called with
    asked, cut     \* history: length of log at the call; an answer was cut short

network == <<known, registered, connected>>
store == <<log, oldest>>
options == <<dir, pageSize, server, asked>>
collected == <<pageMessages, messages, delivered>>
vars == <<network, store, status, options, alive, cursor, pageInfo, page, collected, cut>>

NoCursor == 0
Done == {"returned", "thrown"}

TypeOK ==
    /\ registered \subseteq known /\ known \subseteq Peer /\ connected \subseteq known
    /\ log \in Seq(Kind) /\ Len(log) <= MaxMessages
    /\ oldest \in 1 .. Len(log) + 1
    /\ status \in {"idle", "asking", "decoding"} \cup Done
    /\ dir \in {Forward, Backward} /\ pageSize \in PageSizes
    /\ server \in Peer \cup {AnyPeer} /\ alive \in BOOLEAN
    /\ cursor \in {NoCursor} \cup DOMAIN log
    /\ pageInfo \in [size : 0 .. ServerMax, cursor : {NoCursor} \cup DOMAIN log]
    /\ page \subseteq DOMAIN log
    /\ \A seq \in {pageMessages, messages, delivered} : ToSet(seq) \subseteq DOMAIN log
    /\ asked \in 0 .. Len(log) /\ cut \in BOOLEAN

Init ==
    /\ known = {} /\ registered = {} /\ connected = {}
    /\ log = <<>> /\ oldest = 1
    /\ status = "idle"
    /\ dir = Backward /\ pageSize = (CHOOSE n \in PageSizes : TRUE) /\ server = AnyPeer /\ asked = 0
    /\ alive = FALSE /\ cursor = NoCursor
    /\ pageInfo = [size |-> 0, cursor |-> NoCursor]
    /\ page = {} /\ pageMessages = <<>> /\ messages = <<>> /\ delivered = <<>>
    /\ cut = FALSE

-----------------------------------------------------------------------------
(* The peer *)

Stored == oldest .. Len(log)

(* The stored messages after cursor c in the direction of the query. *)
After(c) ==
    {i \in Stored : c = NoCursor \/ IF dir = Forward THEN i > c ELSE i < c}

(* The first n of them. *)
FirstOf(n, set) ==
    {i \in set : Cardinality({j \in set : IF dir = Forward THEN j < i ELSE j > i}) < n}

(* The last of a page in the direction of the query. *)
EndOf(set) ==
    CHOOSE i \in set : \A j \in set : IF dir = Forward THEN j <= i ELSE j >= i

-----------------------------------------------------------------------------
(* queryHistory *)

(* The peers it may pick: the one asked for, or a random one that is known  *)
(* to register the store protocol, connected or not.                        *)
Candidates(target) == IF target = AnyPeer THEN registered ELSE {target} \cap registered

(* The call up to the first request.  Every throw before it is one disjunct:*)
(* no peer, an unknown one, one without the protocol, no connection.        *)
Query(target) ==
    /\ status = "idle"
    /\ asked' = Len(log)
    /\ dir' \in {Forward, Backward} /\ pageSize' \in PageSizes
    /\ \/ /\ Candidates(target) = {}
          /\ status' = "thrown"
          /\ UNCHANGED <<server, alive>>
       \/ \E p \in Candidates(target) :
             /\ server' = p
             /\ alive' = (p \in connected)
             /\ status' = IF p \in connected THEN "asking" ELSE "thrown"
    /\ UNCHANGED <<network, store, cursor, pageInfo, page, collected, cut>>

(* newStream or the pipe rejects: the connection is gone, the stream is     *)
(* reset, or the answer does not decode or misses its response.             *)
Reject ==
    /\ status = "asking"
    /\ status' = "thrown"
    /\ UNCHANGED <<network, store, options, alive, cursor, pageInfo, page, collected, cut>>

(* Mutant of CursorSent: the request starts over. *)
NoCursorSent == NoCursor

CursorSent == cursor

(* ERROR_INVALID_CURSOR: the peer has pruned the message of the cursor. *)
RejectCursor ==
    /\ status = "asking" /\ alive
    /\ CursorSent # NoCursor /\ CursorSent \notin Stored
    /\ status' = "thrown"
    /\ UNCHANGED <<network, store, options, alive, cursor, pageInfo, page, collected, cut>>

(* Mutant of OnEmpty: an empty answer is asked for again. *)
AskAgain == "asking"

OnEmpty == "returned"

(* An answer without messages. *)
ReplyEmpty ==
    /\ status = "asking" /\ alive
    /\ CursorSent = NoCursor \/ CursorSent \in Stored
    /\ After(CursorSent) = {}
    /\ status' = OnEmpty
    /\ UNCHANGED <<network, store, options, alive, cursor, pageInfo, page, collected, cut>>

(* Mutant of NewPage: pageMessages is not made anew for each page. *)
OldPage == pageMessages

NewPage == <<>>

(* An answer with a page: all its decodes start. *)
ReplyPage(informs) ==
    /\ status = "asking" /\ alive
    /\ CursorSent = NoCursor \/ CursorSent \in Stored
    /\ After(CursorSent) # {}
    /\ LET full == FirstOf(pageSize, After(CursorSent))
           sent == FirstOf(ServerMax, full)
       IN  /\ page' = sent
           /\ pageInfo' = IF informs
                          THEN [size |-> Cardinality(sent), cursor |-> EndOf(sent)]
                          ELSE [size |-> 0, cursor |-> NoCursor]
           /\ cut' = (cut \/ sent # full \/ ~informs)
    /\ pageMessages' = NewPage
    /\ status' = "decoding"
    /\ UNCHANGED <<network, store, options, alive, cursor, messages, delivered>>

(* Mutant of Through: decodes end in any order. *)
ThroughAny(i) == i \in page

(* Decodes that await no decryption are through first, and in order. *)
Through(i) ==
    LET prompt == {j \in page : log[j] = Clear} IN
    i \in page /\ IF log[i] = Clear THEN \A j \in prompt : i <= j ELSE prompt = {}

(* A decode of the page ends.  One that throws rejects Promise.all. *)
Decode(i) ==
    /\ status = "decoding" /\ Through(i)
    /\ page' = page \ {i}
    /\ IF log[i] \in {Clear, Mine}
       THEN messages' = Append(messages, i) /\ pageMessages' = Append(pageMessages, i)
       ELSE UNCHANGED <<messages, pageMessages>>
    /\ status' = IF log[i] = Broken THEN "thrown" ELSE "decoding"
    /\ UNCHANGED <<network, store, options, alive, cursor, pageInfo, delivered, cut>>

(* Mutant of LastPage: a full page ends the query as well. *)
LastPageOrFull == pageInfo.size # 0 /\ pageInfo.size <= pageSize

(* A page smaller than asked for; an unknown size says nothing. *)
LastPage == pageInfo.size # 0 /\ pageInfo.size < pageSize

(* Mutant of NextCursor: one past the cursor of the reply. *)
CursorPast == IF pageInfo.cursor = NoCursor THEN NoCursor ELSE pageInfo.cursor + 1

NextCursor == pageInfo.cursor

(* The page is decoded: the callback, which may throw, and the ends. *)
FinishPage(callbackThrows) ==
    /\ status = "decoding" /\ page = {}
    /\ delivered' = delivered \o pageMessages
    /\ IF callbackThrows
       THEN status' = "thrown" /\ UNCHANGED cursor
       ELSE IF LastPage
            THEN status' = "returned" /\ UNCHANGED cursor
            ELSE /\ cursor' = NextCursor
                 /\ status' = IF NextCursor = NoCursor THEN "returned" ELSE "asking"
    /\ UNCHANGED <<network, store, options, alive, pageInfo, page, pageMessages, messages, cut>>

-----------------------------------------------------------------------------
(* The environment.  What the peers store after the end is left out. *)

StoreMessage(k) ==
    /\ Len(log) < MaxMessages /\ status \notin Done
    /\ log' = Append(log, k)
    /\ UNCHANGED <<network, oldest, status, options, alive, cursor, pageInfo, page, collected, cut>>

Prune ==
    /\ oldest <= Len(log) /\ status \notin Done
    /\ oldest' = oldest + 1
    /\ UNCHANGED <<network, log, status, options, alive, cursor, pageInfo, page, collected, cut>>

(* addPeerToAddressBook, or the discovery of a peer. *)
Discover(p) ==
    /\ p \notin known
    /\ known' = known \cup {p}
    /\ UNCHANGED <<registered, connected, store, status, options, alive, cursor, pageInfo, page,
                   collected, cut>>

Connect(p) ==
    /\ p \in known \ connected
    /\ connected' = connected \cup {p}
    /\ UNCHANGED <<known, registered, store, status, options, alive, cursor, pageInfo, page,
                   collected, cut>>

(* The identify protocol ends on a connection. *)
Identify(p) ==
    /\ p \in connected \ registered
    /\ registered' = registered \cup {p}
    /\ UNCHANGED <<known, connected, store, status, options, alive, cursor, pageInfo, page,
                   collected, cut>>

(* A closed connection stays closed, also when the peer comes back. *)
Disconnect(p) ==
    /\ p \in connected
    /\ connected' = connected \ {p}
    /\ alive' = (alive /\ server # p)
    /\ UNCHANGED <<known, registered, store, status, options, cursor, pageInfo, page, collected, cut>>

-----------------------------------------------------------------------------

Answer == RejectCursor \/ ReplyEmpty \/ \E informs \in BOOLEAN : ReplyPage(informs)
DecodeSome == \E i \in page : Decode(i)
Finish == \E callbackThrows \in BOOLEAN : FinishPage(callbackThrows)

Next ==
    \/ \E target \in Peer \cup {AnyPeer} : Query(target)
    \/ Reject \/ Answer \/ DecodeSome \/ Finish
    \/ \E k \in Kind : StoreMessage(k)
    \/ Prune
    \/ \E p \in Peer : Discover(p) \/ Connect(p) \/ Identify(p) \/ Disconnect(p)

(* A peer answers as long as the connection lasts, and a request on a       *)
(* closed connection rejects; the event loop runs what is ready.            *)
Fairness ==
    /\ WF_vars(Answer) /\ WF_vars(~alive /\ Reject)
    /\ WF_vars(DecodeSome) /\ WF_vars(Finish)

Spec == Init /\ [][Next]_vars /\ Fairness

-----------------------------------------------------------------------------
(* What the component promises *)

(* What is returned is what the callback was given, page by page, in the    *)
(* same order, so a caller may use either.                                  *)
ResultIsPages ==
    /\ IsPrefix(delivered, messages)
    /\ status = "returned" => delivered = messages

(* No message is collected twice, whatever is stored or pruned between two  *)
(* requests.                                                                *)
NoDuplicates == IsInjective(messages)

(* The query implements the history query a caller can reason about: see    *)
(* StoreHistory.  In particular it returns an incomplete history only when  *)
(* an answer was cut short or the message was pruned.                       *)
History == INSTANCE StoreHistory WITH
    Readable <- {Clear, Mine} \cap Kind,
    Dir <- {Forward, Backward},
    state <- IF status \in {"asking", "decoding"} THEN "open" ELSE status,
    frontier <- cursor,
    got <- ToSet(delivered)
ImplementsHistory == History!Spec

(* A query ends, however the store grows and shrinks: it never asks for the *)
(* same page for ever.  (It has no timeout: that a peer which stays         *)
(* connected answers is assumed.)                                           *)
Terminates == status = "asking" ~> status \in Done

(* Forward paging retrieves in order of time, except that a message that    *)
(* had to be decrypted may come late, but still with its page.              *)
ForwardOrder ==
    dir = Forward => \A m, n \in DOMAIN messages :
        m < n => \/ messages[m] < messages[n]
                 \/ log[messages[n]] # Clear /\ messages[m] < messages[n] + ServerMax

=============================================================================

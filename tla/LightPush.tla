-------------------------------- MODULE LightPush --------------------------------
(***************************************************************************)
(* WakuLightPush.push (src/lib/waku_light_push/index.ts): concurrent       *)
(* requests to peers that publish a message on behalf of this node.        *)
(*                                                                         *)
(* A push throws before its stream is open, answers null when anything     *)
(* goes wrong after that, and otherwise answers what the peer said, which  *)
(* may be that it refuses the message.  The peer is external; it may       *)
(* handle a request and its answer be lost.                                *)
(***************************************************************************)
EXTENDS Naturals, FiniteSets

CONSTANTS
    Message,  \* the messages pushed, each by one call
    AnyPeer,  \* the peerId option is not given
    NoPeer    \* no peer was chosen

VARIABLES
    registered,  \* peers of the peer store known to register LightPushCodec
    push,        \* push[m]: where the call for m is
    server,      \* server[m]: the peer whose connection it uses
    broken,      \* calls whose connection is gone
    verdict      \* history: what the peer did with the message, if it came so far

lightPushVars == <<push, server, broken, verdict>>

(* isSuccess of the response: the peer took the message, or refused it. *)
Verdict == {"taken", "refused"}
Ended == Verdict \cup {"null", "thrown"}

LightPushInit ==
    /\ registered = {}
    /\ push = [m \in Message |-> "none"] /\ server = [m \in Message |-> NoPeer]
    /\ broken = {} /\ verdict = [m \in Message |-> "none"]

(* The peer asked for, or a random one; connected or not. *)
Candidates(target) == IF target = AnyPeer THEN registered ELSE {target} \cap registered

(* The call up to newStream; its throws are one disjunct. *)
Push(m, target, connected) ==
    /\ push[m] = "none"
    /\ \/ /\ Candidates(target) = {}
          /\ push' = [push EXCEPT ![m] = "thrown"]
          /\ UNCHANGED server
       \/ \E p \in Candidates(target) :
             /\ push' = [push EXCEPT ![m] = IF p \in connected THEN "opening" ELSE "thrown"]
             /\ server' = [server EXCEPT ![m] = p]
    /\ UNCHANGED <<registered, broken, verdict>>

(* newStream rejects: it is awaited outside the try. *)
OpenFails(m) ==
    /\ push[m] = "opening"
    /\ push' = [push EXCEPT ![m] = "thrown"]
    /\ UNCHANGED <<registered, server, broken, verdict>>

(* The stream is open, the request is written. *)
Opens(m) ==
    /\ push[m] = "opening" /\ m \notin broken
    /\ push' = [push EXCEPT ![m] = "sent"]
    /\ UNCHANGED <<registered, server, broken, verdict>>

(* Mutant of OnFailure: the error is passed on. *)
Rethrow == "thrown"

OnFailure == "null"

(* The pipe rejects, or the answer does not decode or misses its response. *)
PushFails(m) ==
    /\ push[m] = "sent"
    /\ push' = [push EXCEPT ![m] = OnFailure]
    /\ UNCHANGED <<registered, server, broken, verdict>>

(* The response of the peer is returned, be it a success or a refusal. *)
Answered(m) ==
    /\ push[m] = "sent" /\ verdict[m] # "none" /\ m \notin broken
    /\ push' = [push EXCEPT ![m] = verdict[m]]
    /\ UNCHANGED <<registered, server, broken, verdict>>

(* The peer takes the message or refuses it; the connection may be gone by  *)
(* then.                                                                    *)
Handle(m) ==
    /\ push[m] \in {"sent", "null"} /\ verdict[m] = "none"
    /\ \E v \in Verdict : verdict' = [verdict EXCEPT ![m] = v]
    /\ UNCHANGED <<registered, push, server, broken>>

(* A connection to p is closed, with its streams and those being opened. *)
StreamsLost(p) ==
    \E lost \in SUBSET {m \in Message : server[m] = p /\ push[m] \in {"opening", "sent"}} :
        broken' = broken \cup lost

=============================================================================

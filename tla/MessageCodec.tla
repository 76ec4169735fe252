------------------------------ MODULE MessageCodec ------------------------------
(***************************************************************************)
(* A Waku message from the node that makes it to nodes that read it:       *)
(* WakuMessage.fromBytes, encode and decode                                *)
(* (src/lib/waku_message/index.ts), the version 1 payload (PayloadV1),     *)
(* encryption (Sealing) with a symmetric module that is imported           *)
(* asynchronously (src/lib/waku_message/symmetric/index.ts), and the types *)
(* it travels in (WakuProto): bare over relay, in a PushRPC to a light     *)
(* push peer, in a HistoryRPC from a store peer.                           *)
(*                                                                         *)
(* The peers are other implementations: they unwrap a message, wrap it     *)
(* anew, and may write fields in another order, more than once, or fields  *)
(* that this code does not know.  Packets in `packets' may be delivered at *)
(* any time, more than once, or never.                                     *)
(***************************************************************************)
EXTENDS WakuProto, PayloadV1, Sealing, FiniteSets

CONSTANTS
    Site, Author,   \* nodes that run this code; the one that makes the message
    HasSubtle,      \* nodes of which browser.ts can be imported
    Key,            \* 32 bytes, a symmetric key as well as a private one
    Signer,         \* private keys to sign with
    Calls,          \* the arguments with which fromBytes is called
    Replies,        \* the paging information and error that store peers answer
    Answers,        \* what light push peers answer
    Queries,        \* the parameters of history queries
    MaxPackets      \* bound on the packets

(* How a message is to be encrypted: not at all, with symKey, with encPublicKey. *)
ClearLock == [alg |-> "clear", key |-> Undefined]
Lock == {ClearLock} \cup [alg : {"symmetric", "asymmetric"}, key : Key]

ASSUME CodecAssumption ==
    /\ Author \in Site /\ HasSubtle \subseteq Site
    /\ NoSigner \notin Signer
    /\ \A a \in Calls : a.lock \in Lock /\ a.signer \in Signer \cup {NoSigner} /\ a.length \in Length
    /\ MaxPackets \in Nat

(* A cursor is an Index that a store peer has sent; values that peers do    *)
(* not know are integers all the same.                                      *)
ASSUME PeersAssumption ==
    /\ \A params \in Queries :
          /\ params.contentTopics \in Seq(ToSet(params.contentTopics))
          /\ Undefined \notin ToSet(params.contentTopics) /\ params.pageSize # Undefined
          /\ \/ params.cursor = Undefined
             \/ LET c == params.cursor IN
                /\ c = [digest |-> c.digest, receivedTime |-> c.receivedTime, senderTime |-> c.senderTime]
                /\ c.digest # Undefined /\ c.receivedTime # Undefined /\ c.senderTime # Undefined
    /\ \A reply \in Replies :
          /\ "error" \in DOMAIN reply => reply.error \in Int
          /\ "pagingInfo" \in DOMAIN reply /\ "direction" \in DOMAIN reply.pagingInfo =>
                reply.pagingInfo.direction \in Int
    /\ \A answer \in Answers :
          /\ answer = [isSuccess |-> answer.isSuccess, info |-> answer.info]
          /\ answer.isSuccess # Undefined /\ answer.info # Undefined

VARIABLES
    symmetric,  \* symmetric[n]: the module that has been imported, or Undefined
    authored,   \* the arguments of fromBytes, or Undefined
    hand,       \* hand[n]: the WakuMessage that n holds, or Undefined
    packets,    \* what is on its way, with what it means
    result      \* history: the last decode that has ended, or Undefined

vars == <<symmetric, authored, hand, packets, result>>


(* What the author wrote.  The payload of a message is that or what a       *)
(* cipher made of it.                                                       *)
Written(a) == <<[length |-> a.length]>>
ClearPayload(content) == [sealed |-> FALSE, content |-> content]
SealedPayload(content) == [sealed |-> TRUE, content |-> content]

Kind == {"relay", "push", "history"}
TypeOf(kind) ==
    CASE kind = "relay" -> WakuMessage
      [] kind = "push" -> PushRPC
      [] kind = "history" -> HistoryRPC

Init ==
    /\ symmetric = [n \in Site |-> Undefined]
    /\ authored = Undefined
    /\ hand = [n \in Site |-> Undefined]
    /\ packets = {} /\ result = Undefined

-----------------------------------------------------------------------------
(* WakuMessage *)

(* The payload that fromBytes makes, or Rejected. *)
Sealed(a, module) ==
    LET data == ClearEncode(Written(a), a.length, a.signer) IN
    CASE a.lock = ClearLock -> Written(a)
      [] a.lock.alg = "symmetric" -> EncryptSymmetric(module, data, a.lock.key)
      [] a.lock.alg = "asymmetric" -> EncryptAsymmetric(data, a.lock.key)

(* The message that fromBytes makes, with the version and the signer. *)
FromBytes(a, module) ==
    LET clear == a.lock = ClearLock IN
    [proto |-> [payload      |-> IF clear THEN ClearPayload(Sealed(a, module))
                                          ELSE SealedPayload(Sealed(a, module)),
                timestamp    |-> a.timestamp,
                version      |-> IF clear THEN 0 ELSE 1,
                contentTopic |-> "topic"],
     signaturePublicKey |-> IF clear THEN NoSigner ELSE a.signer]

(* The results of all keys that are defined; clear bytes open with none.    *)
Opened(payload, held, module) ==
    IF payload.sealed
    THEN {Decrypt(module, payload.content, k) : k \in held} \ {Rejected}
    ELSE {}

(* decodeProto with the keys held.  The decrypted payload replaces the      *)
(* other in the message, whose version stays.                               *)
DecodeProto(proto, held, module) ==
    IF proto.version # 1
    THEN [proto |-> proto, signaturePublicKey |-> NoSigner]
    ELSE LET decoded == {ClearDecode(dec) : dec \in Opened(proto.payload, held, module)} IN
         IF decoded \subseteq {Failed}
         THEN Undefined
         ELSE LET res == CHOOSE res \in decoded : TRUE IN
              [proto |-> [proto EXCEPT !.payload = ClearPayload(res.payload)],
               signaturePublicKey |-> res.signaturePublicKey]

(* The timestamp getter takes zero for no timestamp. *)
GetTimestamp(message) == IF message.proto.timestamp = 0 THEN Undefined ELSE message.proto.timestamp

(* What is read of the message of fromBytes: it is in the clear, and keeps  *)
(* its version.                                                             *)
Reading(a) ==
    [proto |-> [payload      |-> ClearPayload(Written(a)),
                timestamp    |-> a.timestamp,
                version      |-> IF a.lock = ClearLock THEN 0 ELSE 1,
                contentTopic |-> "topic"],
     signaturePublicKey |-> IF a.lock = ClearLock THEN NoSigner ELSE a.signer]

(* No value stands for none. *)
ASSUME ValuesAssumption ==
    /\ Undefined \notin Calls /\ Undefined \notin {Browser, Node, "", "id", "pubsub"}
    /\ Undefined \notin {0, 1} /\ Undefined # FALSE
    /\ \A a \in Calls :
          /\ Reading(a) # Undefined /\ <<Reading(a).proto>> # Undefined
          /\ \A module \in {Undefined, Browser, Node} : <<FromBytes(a, module).proto>> # Undefined
          /\ ClearEncode(Written(a), a.length, a.signer) # Rejected
          /\ [payload |-> Written(a), signaturePublicKey |-> a.signer] # Failed

-----------------------------------------------------------------------------
(* Requests and answers *)

(* PushRPC.createRequest *)
CreateRequest(proto) ==
    [requestId |-> "id", request |-> [message |-> proto, pubSubTopic |-> "pubsub"],
     response |-> Undefined]

(* directionToProto: what is not FORWARD is BACKWARD. *)
DirectionToProto(direction) == IF direction = "forward" THEN 1 ELSE 0

(* HistoryRPC.createQuery *)
CreateQuery(params) ==
    [requestId |-> "id",
     query |-> [pubSubTopic    |-> params.pubSubTopic,
                contentFilters |-> [i \in DOMAIN params.contentTopics |->
                                       [contentTopic |-> params.contentTopics[i]]],
                pagingInfo     |-> [pageSize |-> params.pageSize, cursor |-> params.cursor,
                                    direction |-> DirectionToProto(params.direction)],
                startTime      |-> params.startTime,
                endTime        |-> params.endTime],
     response |-> Undefined]

(* The answer of a store peer; it leaves out what has no value. *)
Response(proto, reply) ==
    [name \in {"messages"} \cup DOMAIN reply |->
        IF name = "messages" THEN <<proto>> ELSE reply[name]]
StoreAnswer(proto, reply) ==
    FromPartial(HistoryRPC, [requestId |-> "id", response |-> Response(proto, reply)])

(* The message that a packet carries. *)
Unwrap(kind, m) ==
    CASE kind = "relay" -> m
      [] kind = "push" -> m.request.message
      [] kind = "history" -> m.response.messages[1]

Carries(p) ==
    CASE p.kind = "relay" -> TRUE
      [] p.kind = "push" -> p.meant.request # Undefined
      [] p.kind = "history" -> p.meant.response # Undefined

-----------------------------------------------------------------------------

(* A packet of this code; proto is the message in it, if any, and opened    *)
(* says that it was decrypted.                                              *)
Packet(kind, meant, proto, opened) ==
    [kind |-> kind, bytes |-> Encode(TypeOf(kind), meant), meant |-> meant,
     proto |-> proto, opened |-> opened]

(* Other encodings of the same: another order, a field that is not known,   *)
(* an earlier occurrence of a field that is there.                          *)
Older(kind) ==
    IF kind = "relay" THEN [num |-> 3, val |-> 7] ELSE [num |-> 3, val |-> <<>>]
Rotated(bytes) == IF bytes = <<>> THEN bytes ELSE Append(Tail(bytes), Head(bytes))
Encodings(kind, bytes) ==
    {bytes, Rotated(bytes), Append(bytes, [num |-> 9, val |-> "new"])}
        \cup IF \E i \in DOMAIN bytes : bytes[i].num = Older(kind).num
             THEN {<<Older(kind)>> \o bytes} ELSE {}

Transmit(p) ==
    /\ Cardinality(packets) < MaxPackets
    /\ packets' = packets \cup {p}

(* The import of ./browser resolves, or, where it rejects, that of ./node. *)
ImportSymmetric(n) ==
    /\ symmetric[n] = Undefined
    /\ symmetric' = [symmetric EXCEPT ![n] = IF n \in HasSubtle THEN Browser ELSE Node]
    /\ UNCHANGED <<authored, hand, packets, result>>

(* fromBytes at the author; it rejects when it cannot encrypt. *)
Make(a) ==
    /\ authored = Undefined
    /\ IF Sealed(a, symmetric[Author]) = Rejected
       THEN UNCHANGED <<authored, hand>>
       ELSE /\ authored' = a
            /\ hand' = [hand EXCEPT ![Author] = FromBytes(a, symmetric[Author])]
    /\ UNCHANGED <<symmetric, packets, result>>

(* WakuRelay.send or WakuLightPush.push of the message at hand. *)
Send(n, kind) ==
    /\ hand[n] # Undefined /\ kind \in {"relay", "push"}
    /\ LET proto == hand[n].proto IN
       Transmit(Packet(kind, IF kind = "relay" THEN proto ELSE CreateRequest(proto),
                       proto, n # Author /\ authored.lock # ClearLock))
    /\ UNCHANGED <<symmetric, authored, hand, result>>

(* queryHistory asks for a page. *)
Ask(params) ==
    /\ Transmit(Packet("history", CreateQuery(params), Undefined, FALSE))
    /\ UNCHANGED <<symmetric, authored, hand, result>>

(* A peer passes a message on, by relay or as a store peer. *)
PassOn(p, kind, reply) ==
    /\ Carries(p) /\ kind \in {"relay", "history"}
    /\ LET proto == Unwrap(p.kind, p.meant)
           meant == IF kind = "relay" THEN proto ELSE StoreAnswer(proto, reply)
       IN  \E bytes \in Encodings(kind, Encode(TypeOf(kind), meant)) :
              Transmit([kind |-> kind, bytes |-> bytes, meant |-> meant,
                        proto |-> proto, opened |-> p.opened])
    /\ UNCHANGED <<symmetric, authored, hand, result>>

(* A light push peer answers. *)
AnswerPush(p, answer) ==
    /\ p.kind = "push" /\ Carries(p)
    /\ LET meant == [requestId |-> p.meant.requestId, request |-> Undefined, response |-> answer] IN
       \E bytes \in Encodings("push", Encode(PushRPC, meant)) :
          Transmit([kind |-> "push", bytes |-> bytes, meant |-> meant,
                    proto |-> Undefined, opened |-> FALSE])
    /\ UNCHANGED <<symmetric, authored, hand, result>>

(* A packet is decoded with the keys held.  What longToNumber throws ends   *)
(* the query.                                                               *)
Receive(n, p, held) ==
    /\ n # Author /\ Carries(p) /\ p.kind # "push"
    /\ ~Throws(TypeOf(p.kind), p.bytes)
    /\ LET read == DecodeProto(Unwrap(p.kind, Decode(TypeOf(p.kind), p.bytes)), held, symmetric[n])
       IN  /\ result' = [held |-> held, module |-> symmetric[n], opened |-> p.opened,
                         read |-> read]
           /\ hand' = IF read = Undefined THEN hand ELSE [hand EXCEPT ![n] = read]
    /\ UNCHANGED <<symmetric, authored, packets>>

(* A packet is lost, or was delivered for the last time. *)
Lose(p) ==
    /\ packets' = packets \ {p}
    /\ UNCHANGED <<symmetric, authored, hand, result>>

Next ==
    \/ \E n \in Site : ImportSymmetric(n)
    \/ \E a \in Calls : Make(a)
    \/ \E n \in Site, kind \in Kind : Send(n, kind)
    \/ \E params \in Queries : Ask(params)
    \/ \E p \in packets, kind \in Kind, reply \in Replies : PassOn(p, kind, reply)
    \/ \E p \in packets : Lose(p)
    \/ \E p \in packets, answer \in Answers : AnswerPush(p, answer)
    \/ \E n \in Site, p \in packets, held \in SUBSET Key : Receive(n, p, held)

Spec == Init /\ [][Next]_vars

-----------------------------------------------------------------------------
(* What the codec promises *)

(* What another implementation encodes, in whatever order, with fields of   *)
(* its own and with repetitions, is read as it was meant, and so is every   *)
(* request of this code: no default, zero or missing field is lost; and the *)
(* message that was put into a packet is the one that is taken out of it.   *)
RoundTrip ==
    \A p \in packets :
        /\ ~Throws(TypeOf(p.kind), p.bytes) => Decode(TypeOf(p.kind), p.bytes) = p.meant
        /\ Carries(p) => Unwrap(p.kind, p.meant) = p.proto

(* toJSON and fromJSON, the other representation of the same types, lose    *)
(* nothing but the number of an error or of a direction that this version   *)
(* does not know, which the binary encoding keeps.                          *)
Known(v) == IF v \in {0, 1} THEN v ELSE Unrecognized
KnownPaging(paging) ==
    IF paging = Undefined THEN paging ELSE [paging EXCEPT !.direction = Known(@)]
KnownResponse(response) ==
    [response EXCEPT !.error = Known(response.error),
                     !.pagingInfo = KnownPaging(response.pagingInfo)]
JsonKeeps ==
    \A p \in packets :
        FromJSON(TypeOf(p.kind), ToJSON(TypeOf(p.kind), p.meant)) =
            IF p.kind = "history" /\ p.meant.response # Undefined
            THEN [p.meant EXCEPT !.response = KnownResponse(@)]
            ELSE p.meant

(* Who can read a message: everybody if it is clear; else who holds its key *)
(* and, for a symmetric one, whose module has been imported, as long as the *)
(* size fits three bytes and nobody on the way has decoded it: a decrypted  *)
(* message still says version 1, so that sent on it can be read by no one.  *)
ReadableExactly ==
    result # Undefined =>
        (result.read # Undefined <=>
            \/ authored.lock = ClearLock
            \/ /\ ~result.opened
               /\ authored.lock.key \in result.held
               /\ authored.lock.alg = "symmetric" => result.module # Undefined
               /\ authored.length < 16777216)

(* What is read is what the author wrote, with the key that signed it, by   *)
(* whichever way it came.                                                   *)
Authentic ==
    result # Undefined /\ result.read # Undefined =>
        /\ result.read.proto.payload = ClearPayload(Written(authored))
        /\ result.read.proto.contentTopic = "topic"
        /\ GetTimestamp(result.read) =
              IF authored.timestamp = 0 THEN Undefined ELSE authored.timestamp
        /\ result.read.signaturePublicKey =
              IF authored.lock = ClearLock THEN NoSigner ELSE authored.signer

=============================================================================

-------------------------------- MODULE WakuProto --------------------------------
(***************************************************************************)
(* The message types of src/proto/waku/v2: message.ts, store.ts,           *)
(* light_push.ts, and their functions (Protobuf).  A HistoryRPC has a      *)
(* HistoryQuery, that has a PagingInfo, that has an Index: types are       *)
(* nested three deep, and their functions are put together from those of   *)
(* the types inside.                                                       *)
(***************************************************************************)
EXTENDS ProtoFields

CONSTANT MaxSafeInteger   \* Number.MAX_SAFE_INTEGER

WakuMessage == <<
    Optional(1, "payload", Bytes),
    Optional(2, "contentTopic", Plain),
    Optional(3, "version", Plain),
    Optional(4, "timestamp", Plain)>>

Index == <<
    Implicit(1, "digest", Bytes, ""),
    Implicit(2, "receivedTime", Plain, 0),
    Implicit(3, "senderTime", Plain, 0)>>

PagingInfo_Direction == <<"DIRECTION_BACKWARD_UNSPECIFIED", "DIRECTION_FORWARD">>

PagingInfo == <<
    Implicit(1, "pageSize", UInt64, 0),
    Embedded(2, "cursor", Index),
    Implicit(3, "direction", Enum(PagingInfo_Direction), 0)>>

ContentFilter == <<Implicit(1, "contentTopic", Plain, "")>>

HistoryQuery == <<
    Optional(2, "pubSubTopic", Plain),
    Repeated(3, "contentFilters", ContentFilter),
    Embedded(4, "pagingInfo", PagingInfo),
    Optional(5, "startTime", Plain),
    Optional(6, "endTime", Plain)>>

HistoryResponse_Error == <<"ERROR_NONE_UNSPECIFIED", "ERROR_INVALID_CURSOR">>

HistoryResponse == <<
    Repeated(2, "messages", WakuMessage),
    Embedded(3, "pagingInfo", PagingInfo),
    Implicit(4, "error", Enum(HistoryResponse_Error), 0)>>

HistoryRPC == <<
    Implicit(1, "requestId", Plain, ""),
    Embedded(2, "query", HistoryQuery),
    Embedded(3, "response", HistoryResponse)>>

PushRequest == <<
    Implicit(1, "pubSubTopic", Plain, ""),
    Embedded(2, "message", WakuMessage)>>

PushResponse == <<
    Implicit(1, "isSuccess", Plain, FALSE),
    Implicit(2, "info", Plain, "")>>

PushRPC == <<
    Implicit(1, "requestId", Plain, ""),
    Embedded(2, "request", PushRequest),
    Embedded(3, "response", PushResponse)>>

-----------------------------------------------------------------------------
(* The functions of a type *)

(* A type of depth 0 embeds nothing: of these no use is made. *)
Itself(T, m) == m
Never(T, w) == FALSE

Depth0 == INSTANCE Protobuf WITH
    SubEncode <- Itself, SubDecode <- Itself, SubThrows <- Never,
    SubToJSON <- Itself, SubFromJSON <- Itself, SubFromPartial <- Itself
Depth1 == INSTANCE Protobuf WITH
    SubEncode <- Depth0!Encode, SubDecode <- Depth0!Decode, SubThrows <- Depth0!Throws,
    SubToJSON <- Depth0!ToJSON, SubFromJSON <- Depth0!FromJSON,
    SubFromPartial <- Depth0!FromPartial
Depth2 == INSTANCE Protobuf WITH
    SubEncode <- Depth1!Encode, SubDecode <- Depth1!Decode, SubThrows <- Depth1!Throws,
    SubToJSON <- Depth1!ToJSON, SubFromJSON <- Depth1!FromJSON,
    SubFromPartial <- Depth1!FromPartial
Depth3 == INSTANCE Protobuf WITH
    SubEncode <- Depth2!Encode, SubDecode <- Depth2!Decode, SubThrows <- Depth2!Throws,
    SubToJSON <- Depth2!ToJSON, SubFromJSON <- Depth2!FromJSON,
    SubFromPartial <- Depth2!FromPartial

Encode(T, m) == Depth3!Encode(T, m)
Decode(T, w) == Depth3!Decode(T, w)
Throws(T, w) == Depth3!Throws(T, w)
ToJSON(T, m) == Depth3!ToJSON(T, m)
FromJSON(T, o) == Depth3!FromJSON(T, o)
FromPartial(T, o) == Depth3!FromPartial(T, o)

=============================================================================

----------------------------- MODULE MCMessageCodec -----------------------------
(* MessageCodec with an author and a reader, payloads around the steps of   *)
(* the size field, and paging information around the limits of its fields.  *)
EXTENDS MessageCodec

MCCursor == [digest |-> "digest", receivedTime |-> 0, senderTime |-> 1]

MCQuery(direction, cursor, topics, start) ==
    [pubSubTopic |-> "pubsub", direction |-> direction, pageSize |-> 2, cursor |-> cursor,
     contentTopics |-> topics, startTime |-> start, endTime |-> Undefined]

MCQueries ==
    {MCQuery("forward", Undefined, <<>>, 0),
     MCQuery("backward", MCCursor, <<"topic", "">>, Undefined)}

MCPaging(size, direction) ==
    [pagingInfo |-> [pageSize |-> size, cursor |-> [digest |-> "digest", senderTime |-> 1],
                     direction |-> direction]]

MCReplies == {MCPaging(0, 2), [error |-> 2], MCPaging(MaxSafeInteger + 1, 1)}

MCAnswers == {[isSuccess |-> FALSE, info |-> "why"], [isSuccess |-> TRUE, info |-> ""]}

CONSTANTS k1, s1

MCCall(alg, length, signer, timestamp) ==
    [lock |-> IF alg = "clear" THEN ClearLock ELSE [alg |-> alg, key |-> k1],
     length |-> length, signer |-> signer, timestamp |-> timestamp]

MCCalls ==
    {MCCall("clear", 256, NoSigner, 0), MCCall("clear", 0, s1, 5),
     MCCall("symmetric", 256, s1, 0), MCCall("symmetric", 0, NoSigner, 5),
     MCCall("asymmetric", 256, NoSigner, 0), MCCall("asymmetric", 65535, s1, 5),
     MCCall("symmetric", 16777216, NoSigner, 0), MCCall("asymmetric", 16777216, s1, 5)}

=============================================================================

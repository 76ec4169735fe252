# js-waku in TLA+

js-waku is a TypeScript client of the Waku v2 network: it relays messages in a
gossipsub mesh, queries the history that store nodes keep, and asks light push
nodes to publish for it. This directory models it, with two of its example
applications, checks the models with TLC on small instances, and proves their main
properties with TLAPS.

Paths below are relative to the repository; `lib/` stands for `src/lib/`.

## 1. Inventory

| Component | State | Operations | Talks to |
|---|---|---|---|
| **Relay mesh and fanout** `lib/waku_relay/index.ts`, `relay_heartbeat.ts`, `get_relay_peers.ts`, `constants.ts` | `mesh`, `fanout`, `lastpub`, `backoff`, `heartbeatTicks` of the gossipsub router (per topic) | `join`, `_publish`, `_heartbeat`, and libp2p-gossipsub's `leave`, GRAFT and PRUNE handlers on the same maps | remote peers by GRAFT/PRUNE and messages; peer scores |
| **Gossip** `lib/waku_relay/index.ts` (`_publish`, `_emitGossip`, `_makePrune`) | libp2p-gossipsub's message cache | called by heartbeat and prune | remote peers by IHAVE, PRUNE |
| **Relay receive path** `lib/waku_relay/index.ts` | `observers` (a map of sets), `decryptionKeys` | `start`/`subscribe`, `addObserver`, `deleteObserver`, `addDecryptionKey`, `deleteDecryptionKey`; the listener, an async decode per message | gossipsub events; the codec; callbacks of the application |
| **Heartbeat timer** `relay_heartbeat.ts` (`start`, `stop`) | `_heartbeatTimer`: a timeout, an interval, and closures over them | start, stop, first timeout, interval | `_heartbeat` and those who listen to it |
| **Store query** `lib/waku_store/*`, `lib/select_peer.ts` | local to a call: cursor, page, collected messages | `queryHistory` | a store peer, request and reply per page; the codec; a callback |
| **Light push** `lib/waku_light_push/*`, `lib/select_peer.ts` | local to a call | `push` | a light push peer |
| **Waku node** `lib/waku.ts` | two maps of keep-alive intervals | `create`, constructor, `dial`, `addPeerToAddressBook`, `startKeepAlive`, `stopKeepAlive`, `stop` | libp2p connection manager events; relay |
| **Message codec** `lib/waku_message/index.ts`, `version_1.ts` | none | `fromBytes`, `encode`, `decode`, `decodeProto`, `clearEncode`, `clearDecode` | symmetric and asymmetric cryptography |
| **Symmetric cryptography** `lib/waku_message/symmetric/*` | the module variable `symmetric`, set by an asynchronous import | encrypt, decrypt | platform |
| **Protobuf types** `src/proto/*` | none | `encode`, `decode`, `toJSON`, `fromJSON`, `fromPartial` of ten types | other implementations, by the wire format |
| **eth-pm, eth-pm-wallet-encryption** `examples/*` | React state: node, address, key pair, kept announcement, collected keys, messages | effects that set keys and observers; wallet requests; public key and private messages | the library; a wallet |
| **web-chat** `examples/web-chat` | React state: node, "history retrieved", message list | effects, retrieval of the history, observer, posting | the library |
| **Discovery** `lib/discovery.ts`; **test harness** `src/test_utils/*`; **minimal examples** | - | - | HTTP; processes and files; the library |

JavaScript runs one callback at a time, so a handler that does not `await` is
atomic. What is hard is everything between two callbacks:

* **Relay mesh and gossip.** One heartbeat prunes, selects, prunes and selects
  again, on maps that remote GRAFTs, PRUNEs and disconnections change between two
  heartbeats; `join` and `_publish` write the same maps; a topic may have a mesh
  and a fanout at once. Correct: both ends of a link agree, backoffs and direct peers
  are respected, watermarks and outbound quota are restored, fanout entries
  expire, nobody is told of a message for ever.
* **Receive path.** Decodes of different messages overlap, and keys and
  observers change while they run. Correct: the keys of the time of receipt are
  used, an observer is called no more often than it should be and is not
  forgotten, unencrypted messages stay in order.
* **Heartbeat timer.** A router that runs may be started once more, and a heartbeat
  calls listeners that may stop, start or restart the router, in the middle of the callback that is about to start the interval.
  Correct: one timer while started, none after.
* **Store query.** The history grows and is pruned between two pages, a peer
  may cap a page, leave out the cursor or go away, a message may not decode, a
  callback may throw. Correct: nothing twice, nothing missing, in order, and it
  ends.
* **Node.** libp2p reports every connection of a peer but only the last
  disconnection, starts before the listeners are attached, and loses streams
  with their connection. Correct: no interval is left behind or missing, and a
  push reports truthfully what became of the message.
* **Codec.** Peers re-encode messages in their own way; readers hold several keys,
  and may not have loaded the cipher yet. Correct: what is read is what was
  written, by those and only those who can.
* **Examples.** Effects run after the state they depend on, the wallet and the
  decodes answer later still. Correct: a message is shown once, the history stays,
  a key that is used was signed by its owner.

`PROJECT.json` lists the hazards at their lines, with the properties that would
catch each.

## 2. Modules

| Module | Models | Composes |
|---|---|---|
| `RelayMesh` | mesh and fanout of one topic | - |
| `RelayGossip` | messages, cache and IHAVE over that mesh | extends `RelayMesh`, and is shown to implement it |
| `MeshSelection` | the over-full branch of `_heartbeat` on its array, statement by statement | compared with `RelayMesh` through `INSTANCE` |
| `RelayObservers` | receive path | - |
| `HeartbeatTimer` | the timer, as functions on its state | - |
| `RelayLifecycle` | start, stop and restart of the router | extends `RelayObservers` and `HeartbeatTimer` |
| `StoreQuery` | `queryHistory` against a store peer | implements `StoreHistory` |
| `StoreHistory` | abstract: what a history query promises | - |
| `KeepAlive`, `LightPush` | keep-alive timers; `push` | - |
| `WakuNode` | `create` to `stop`, over the connections of libp2p | extends `KeepAlive` and `LightPush` |
| `ProtoFields` | the fields of a message type | - |
| `Protobuf` | the five functions of a type, from those of the types inside | extends `ProtoFields` |
| `WakuProto` | the message types, as lists of fields, and their functions | four instances of `Protobuf`, one on the other |
| `PayloadV1`, `Sealing` | the version 1 envelope; encryption of it | - |
| `MessageCodec` | a message from its author to its readers | extends `WakuProto`, `PayloadV1`, `Sealing` |
| `EthPm`, `WebChat` | the pages of the examples | - |
| `RelayMeshProofs` (with those of `RelayGossip`), `MeshSelectionProofs`, `RelayLifecycleProofs`, `StoreQueryProofs`, `WakuNodeProofs`, `ProtobufProofs`, `MessageCodecProofs`, `ExamplesProofs` | theorems | `MessageCodecProofs` has an instance of `ProtobufProofs` for each one of `Protobuf` |
| `MC*` | definitions for model checking | `MCExamples` opens the page of `EthPm` or of `WebChat` |

Operators that a comment calls "Mutant of ..." are not used by the specifications:
each is what a plausible bug would make of the definition it names, and shows
that the runs would notice.

### RelayMesh and MeshSelection

One topic: `heartbeat` treats the topics one after the other and shares nothing
between them but the score cache. `mesh` with `joined` is the topic's entry in
the `mesh` map, and `fanout` with `fanning` its entry in `fanout`. An entry may
be empty, and that matters. `lastpub` counts heartbeats since the last publication, `ticks` is
`heartbeatTicks` modulo `RelayOpportunisticGraftTicks`. `linked` is what the
GRAFTs and PRUNEs on the wire add up to: the peers that have this node in their
mesh as far as the exchange says.

| Action | Code |
|---|---|
| `Join`, `Publish` | `WakuRelay.join`, `_publish` |
| `Heartbeat` | all of `_heartbeat` that touches these maps: clearing of backoffs (any subset may have expired), `MaintainMesh` (negative scores, too few, too many, outbound quota, opportunistic grafts), expiry and `MaintainFanout`, the coalesced GRAFTs and PRUNEs |
| `GetRelayPeers` | `getRelayPeers`, with its rule that a count of 0 means no limit |
| `KeptOf`, `BestScored`, `Rebalanced` | the branch `peers.size > Dhi`, as the set of its possible results |
| `Leave`, `HandleGraft`, `HandlePrune`, `Peer*`, `Rescore` | external: libp2p-gossipsub and the network |

GRAFTs of this node are taken as accepted until a PRUNE comes, which
`HandlePrune` may do at once.

A behaviour of `MeshSelection` is one run of that branch, on the array it works on:
`Sort` and `Shuffle`, with every outcome, `CountOutbound`, then `Bubble` and
`Reserve`, of which each step is a round of the first or the second loop of
`rotate`, and `Prune`. `at` is the statement that runs next, and `chosen`
remembers the array before the rotations. What is left is compared with `KeptOf`,
so that the set-level definition used in `RelayMesh` is checked and not assumed.

### RelayGossip

The same maps with messages in them. `age[m]` is the place of a message in the
message cache, which is external: a window of `HistoryLength` heartbeats, of which
`HistoryGossip` are announced. `pushed` and `told` are what a peer was sent of it
and how often it was told of it, since it connected. `PublishMessage` is `Publish`
with the message it sends and caches; `HeartbeatGossip` is `Heartbeat` with the two
calls of `_emitGossip`, for the mesh and for the fanout of the topic as they are at
the end of it; `EmitGossip` is the set of announcements one call may choose
(`Dlazy`, `RelayGossipFactor`, `RelayMaxIHaveLength`).

### RelayObservers, HeartbeatTimer and RelayLifecycle

`received` keeps each message with the keys held when it arrived, `jobs` are
decodes under way, one per listener, `calls[cb]` what each observer saw. A
message without encryption awaits nothing but settled promises, so its decode
ends before that of any later message (`MayResolve`); encrypted ones end in any
order. Every `start` registers one more listener, whether the router runs or not, and
so does a call of `subscribe` alone (`Subscribe`), which registers before it joins and
so also when the router does not run and joining throws. `stop`, which is
libp2p-gossipsub's, removes none. That `start` and `subscribe` of a topic already joined
join it again is `Join` of `RelayMesh`, which has no guard but that of the code.

`timer` is `_heartbeatTimer`, `armed` the timeouts and intervals that are live in
the platform, each named by the start it stems from: apart, they can disagree. The
operators `Started`, `Stopped`, `Cancelled` and `Periodic` are the methods and the
two closures; the closures look `_heartbeatTimer` up when they run. A heartbeat
(`FirstBeat`, `NextBeat`) ends in one of the `Reactions`: it returns, a listener of
`gossipsub:heartbeat` stops the router, starts it once more, or restarts it, or something
throws. `RelayLifecycle` runs both together, with `Beat` as a step of the router too:
`StartRelay` takes a router that runs as well as one that is stopped, and the timer is
kept single by `Started`, which looks at `_heartbeatTimer` as the code does.

### StoreQuery and StoreHistory

`log` is what the store peer ever kept, `oldest` the first message it still
keeps. `status` is the control point of `queryHistory`: `asking` is the await of
the reply, `decoding` that of `Promise.all`. The kinds of messages are what
the codec can do to them: decode at once, decode with a key, not decode, throw.
`Query` includes `selectRandomPeer` and every throw before the first request;
`FinishPage` the callback and the three exits of the loop. The peer is
external: it answers in order of time from the cursor on, caps a page at
`ServerMax`, may omit the paging information, rejects a cursor it has pruned,
and may disconnect.

`StoreHistory` has no pages, sizes, peers or decodes: a frontier moves through
the log and everything readable it passes is handed over. The refinement maps
the cursor to the frontier and the messages given to the callback to `got`.

### KeepAlive, LightPush, WakuNode

`timers` are the entries of the two maps, `live` the intervals that really
fire: apart, they can disagree, which is what a leak is. `conns[p]` counts the
connections of libp2p's connection manager; `Connect` emits `peer:connect` for
each, `Disconnect` emits `peer:disconnect` for the last. `early` remembers the
peers whose connections are older than the constructor's listeners. `Option`, `Default`
and `Period` are the options, the defaults and what the constructor makes of them;
`Wanted` is what the documentation of the options makes of them.

A push is `none`, `opening` (the await of `newStream`), `sent` (the await of the pipe) and
then ends as `null`, as `thrown`, or with the response of the peer: `taken`, or
`refused`, which is a response as well (`isSuccess` is false) and is returned like the other.
`verdict[m]` is what the peer did with the message, whether or not its answer arrives.

### Protobuf, WakuProto, PayloadV1, Sealing, MessageCodec

The generated code of each type differs from that of another in the list of fields
only, and so a type is that list (`WakuProto`, of the fields that `ProtoFields` can
state) and `Encode`, `Decode`, `ToJSON`, `FromJSON` and `FromPartial` are operators on
it (`Protobuf`). The functions of embedded messages, which they call, are parameters of
`Protobuf`: an `Index` is in a `PagingInfo`, that in a `HistoryQuery` or a
`HistoryResponse`, those in a `HistoryRPC`, and so `WakuProto` puts the instances
`Depth0` to `Depth3` on each other and takes its functions from the last. A message is a
record; encoded it is the sequence of its fields in wire order, with their numbers. What is kept is what
can go wrong: defaults that are left out, zero against undefined, the last
occurrence of a repeated field number, unknown fields, enumerations with unknown
numbers, integers beyond `MAX_SAFE_INTEGER`. Bytes of a field are abstract.

`PayloadV1` is `clearEncode` and `clearDecode`: the flags byte with the width of the
size field in two bits and the signed bit in a third, the size, the padding, the
signature over everything before it. Bit operations are arithmetic there, so that
it can be proved about. `Sealing` has ideal ciphers; what is modelled is how the
parts are laid out by `browser.ts` and `node.ts`, which must read each other, and
the order in which a key is tried. In `MessageCodec`, `symmetric[n]` is the module
variable at each node. A message is made (`Make`), sent (`Send`), passed on by
peers that unwrap it and encode it anew (`PassOn`, with `Encodings`), lost,
delivered twice, or read (`Receive`) with any set of keys, and sent on by its reader. A
packet in `packets` has its bytes and, as history, what they are meant to say.

A peer may write what it passes on in any of the `Encodings`: in order, with its first
field last, with a field of an unknown number, or with an earlier occurrence of a field
that is there. `PeersAssumption` says of peers what the properties need: an enumeration is
an integer, known or not, and a cursor an `Index`; `ValuesAssumption`, that
`undefined` is none of the values that are sent.

### EthPm and WebChat

React effects run some time after the state they depend on has changed:
`RunEffects` compares the dependencies with those of the last run (`ran`,
`ranWith`), cleans up after that run, and registers anew. `asked` are the requests
the wallet has not answered (sign, decrypt, the key of an account) and loads from
storage, `decoding` the decodes that have not resolved; either ends in any order.
`wallet` chooses between the two examples, which differ in who decrypts.

`WebChat` has `retrieved`, which is set before the query starts, the listener of
`change:protocols` and the observer, which follow it with the effects, and the
retrievals, each of which shows a page at a time while messages arrive. A message the
user posts is `HandleMessage` from where `Room.tsx` has awaited its construction, before
which nothing changes, and reaches the page's own observer like the others, by a decode of
its own (`Arrive`).

## 3. Runs

| Run | Question | Result |
|---|---|---|
| `relay_mesh` | mesh and fanout under every interleaving, safety and expiry | holds |
| `mesh_selection` | the array loops select what `RelayMesh` says | holds |
| `relay_gossip` | who is told of a message, and how often | holds |
| `relay_observers` | delivery with concurrent decodes, two observers, one throwing | holds |
| `relay_lifecycle` | listeners and timers over starts, second starts, stops and restarts | holds |
| `store_query` | one query, its order, completeness, refinement, end | holds |
| `waku_node` | keep-alive and light push, from create to stop | holds |
| `codec` | one message between implementations and keys | holds |
| `examples` | the pages of the examples | holds |
| `opportunistic_graft`, `one_topic`, `keep_alive_zero` | what a comment says of the code | violated, see Findings |

What the properties say is in the comment above each. The ones worth arguing
about:

* `MeshIsLinked`: no mesh peer was pruned or pruned us since it was grafted.
  It rests on `prunePeer` recording the backoff before the next selection of the
  same heartbeat; without that record a peer is grafted and pruned in one RPC.
* `HalfOpenOnlyByResubscribe`, `BackoffRespected`, `DirectOnlyByPromotion`: three
  things that should never happen and do, each through `join` only.
* `HeartbeatRepairs`: the mesh may exceed `Dhi` after a heartbeat, by the
  outbound quota and no more.
* `MeshToldOnlyForFanout`: mesh peers are excluded from gossip because they were
  pushed the messages. A topic that was published to while its mesh was empty has
  a fanout entry too, and for as long as that lives its mesh is gossiped to.
  `IHaveBounded`: so a message is announced at most twice per heartbeat.
* `KeysAtReceipt`, `Served`, `CallsBounded`, `ClearInOrder`: delivery.
  `CallsBounded` counts the listeners that starts, second ones and restarts included,
  leave behind.
* `OneTimer`: a running router has one timer, which `stop` would clear, and a
  stopped one none, also when a running one is started again; only a first heartbeat
  that throws, or restarts the router, breaks this.
* `ImplementsHistory`: an incomplete history is returned only after an answer
  was cut short or a message was pruned. A peer that caps its pages below the
  page size asked for ends the query early: that is the `cut` of the abstract
  specification, and the code cannot tell it from the last page.
* `KeptAlive`: the timers are exactly those the options ask for, of the connected
  peers, except the peers that connected while libp2p was starting. It is stated with
  the documented meaning of the options, zero to disable, which is why the run leaves the
  relay option out: with a zero it is false, as `keep_alive_zero` shows.
* `PushOutcome`: after a throw a message may be pushed again without being
  published twice, and a response tells what became of the message, be it a refusal.
  After `null` it may not be concluded either way.
* `ReadableExactly`: who can read a message, exactly. `RoundTrip` and
  `JsonKeeps`: no encoding of another implementation is misread, and JSON loses nothing
  but the errors and directions that this version does not know. `Authentic`: what is read is what was written.
* `RecipientsSigned`, `ShownOnce`, `Starts`: the private message pages, whatever the
  user does while wallet and decodes are pending.
* `HistoryStays`, `NoRetrievalOnceObserving`: the chat page.

### Bounds

* `relay_mesh`: three peers, of which one is direct and outbound, `D = Dlo = Dhi =
  1`, four score assignments (one peer negative enough not to be published to,
  one negative, all zero, one positive). With three peers the mesh is empty,
  full, over-full by one and by two. `OppTicks = 2` stands for 60 and
  `FanoutTTL = 1` heartbeat for 60: the counters are only compared with the
  bound. `opportunistic_graft` uses `D = 2` and no direct peer to reach its branch.
* `mesh_selection`: meshes of four and five peers, every scoring with three values,
  every outcome of the sort and of the shuffle, three outbound peers, `D = 3`: both
  loops rotate at least twice.
* `relay_gossip`: two peers, so that one may be in the mesh and one in the fanout;
  two messages and `MaxIHaveLength = 1`, so that an announcement is truncated; a window
  of two heartbeats. Messages are symmetric: nothing tells them apart.
* `relay_observers`: two messages, as the properties relate two; one key, one
  content topic beside "all", two callbacks. Every message kind may come first or
  second. One listener: every listener starts a decode of its own, and
  `relay_lifecycle` has up to three, so that a restart is itself restarted and a running
  router started twice more; one message and one callback, as the counts are per
  message and callback.
* `store_query`: three messages, page sizes 1 to 3 and a peer's limit of 2, so
  that a query has up to three pages, capped and uncapped ones; all four kinds;
  every message may be stored or pruned at any time. One peer: a query talks to
  one only.
* `waku_node`: two peers with up to two connections each, two pushes; pings
  every five seconds and the default for relay, so that both kinds of timer run.
  `keep_alive_zero` gives zero for relay, and needs one peer and one push.
* `codec`: an author without and a reader with `crypto.subtle`, one key that is the
  message's and one that is not, one signer; payload lengths around the steps of the
  size field (0, 256, 65535, 2^24); two packets at a time. `MaxSafeInteger = 3` stands
  for 2^53 - 1: it is only compared with.
* `examples`: two accounts and three connections, so that the user comes back to
  the first; one private message, which two observers could show twice; two
  requests or decodes pending. Three messages in pages of two, two retrievals.

`CHECK_DEADLOCK FALSE` is set where the system may stop: a selection that is
made once, a node that was stopped, a page that has shown everything.

### Fairness

* `RelayMesh`: weak fairness of `Heartbeat`, which a `setInterval` calls as long
  as the router runs. Nothing is assumed of the network.
* `RelayObservers`: a decode that can resolve does: the event loop.
* `StoreQuery`: decodes and the end of a page likewise; a request on a closed
  connection rejects; and a peer that stays connected answers. The last is an
  assumption about the peer, not the code: `queryHistory` has no timeout.
* `WakuNode`: only that a stopping libp2p closes its connections.
* `EthPm`: `Waku.create` resolves or rejects (`CreateFails`), and the `setTimeout` of `initWaku` fires. That a
  peer connects is not assumed.

### Findings

With a run that shows them:

1. `relay_heartbeat.ts:295`: opportunistic grafting keeps mesh peers where it
   means to drop them, and so never grafts anyone (`opportunistic_graft`).
2. `waku.ts:227`: light push ignores `pubSubTopic` (`one_topic`).
3. `waku.ts:127`: a `relayKeepAlive` of 0 does not disable, it is taken for not given and
   starts the timers with the default (`keep_alive_zero`).

Other disagreements of the code with its comments, which the models contain and no
run is about:

* `relay_heartbeat.ts:279`: `peers.size / 2` is no index of an odd mesh, whose median is then
  taken to be 0 whatever its peers score. What is decided on it are grafts, none of which takes
  place, by finding 1, so that no state shows it.
* `waku_store/index.ts:109`: a query without a peer picks one of the address book, and throws
  if it is not connected, also when another store peer is; the guide
  (`guides/store-retrieve-messages.md:152`) says that it selects a connected one.
* `waku_light_push/index.ts:94`: `null` is no sign that the message was not sent, as the
  README of the library takes it to be (`README.md:86`): the answer may have been lost.
* `eth-pm/src/waku.ts:44`: announcements carry no time, so that an older key may replace a newer
  one. Nothing says which of two is newer.
* `relay_heartbeat.ts:249`: the outbound top-up does not filter for outbound peers.
* `relay_heartbeat.ts:222`: the outbound quota is computed from `D` and pushes
  best-scored peers out.
* A decrypted message still says version 1 (`waku_message/index.ts`): sent on as it
  is, nobody can read it. `ReadableExactly` names this as one of its exceptions.
* `key_pair_storage.ts:118` of eth-pm: a key pair that was loaded is plain JSON,
  whose keys are no arrays; it opens nothing and cannot be announced.
* `BroadcastPublicKey.tsx:35`: the announcement that was kept is sent again after
  the account or the key has changed. In the wallet example the key of one account
  may arrive while the page shows another.
* `web-chat/src/App.tsx:112` says that previous messages are retrieved before
  listening: the observer is there before the retrieval ends, messages between the
  end of what is retrieved and the observer are missed, and a second store peer that
  is seen before the effects run shows the history twice.

## 4. Proofs

Each holds for every value of the constants that the named assumptions of the module
allow, in particular for any number of peers, messages, keys and pages.

**RelayMeshProofs.** The inductive invariant is

    IInv = TypeOK /\ MeshIsLinked /\ FanoutHasClock /\ MeshOfJoined

`TypeOK` is needed for `MeshIsLinked` (a mesh peer is connected, so a GRAFT sent
to it arrives), and `MeshOfJoined`, that a topic without an entry has no mesh, for
`HalfOpenSafe`: joining such a topic has nothing to forget. The heartbeat is the
hard step. `GetRelayPeersSubset`, `KeptSubset` and
`MaintainMeshShape` reduce it to what each selection is a subset of. The
argument for `MeshIsLinked` is then that a peer left out of `kept` is in the
backoff that `Graftable` reads, so that no PRUNE of the round hits a peer of the new
mesh. From `IInv` follow `TypeCorrect`, `MeshLinked`, `FanoutStamped`, and by
case over the actions the action properties `BackoffSafe`, `DirectSafe` and
`HalfOpenSafe`.

`MeshIsRepaired` and `FanoutIsRefilled` are about numbers, so subsets are not enough.
`GetRelayPeersSize` says how many peers `getRelayPeers` returns, its rule for a count of
0 included, and `KeptSize` that pruning an over-full mesh leaves exactly `D`.
`MaintainMeshChoices` names the four intermediate meshes of a heartbeat, and
`MeshRepaired` adds them up: below `Dlo` only if there was nobody left to graft, and
above `Dhi` by the outbound quota at most. For opportunistic grafts this rests on
finding 1: as the code has it they add no peer.

In the same module, of `RelayGossip`: `GossipImplementsMesh`, every step with messages is a step of
`RelayMesh` or leaves the mesh alone, so that what is proved of the mesh holds with
gossip as well (`GossipKeepsLinks`). `AnnouncementsBounded` rests on `GossipTypeOK`
and on the window: a message that is announced ages in the same step.
`MeshToldForFanout` reads off `HeartbeatGossip` that the call for the mesh excludes
it and the other call is made only while the fanout lives.

**MeshSelectionProofs.** `SelectsAsRelayMesh` says that the selection the array code makes
is one that `RelayMesh` allows: so the set-level `KeptOf` that the theorems above are about is
what the loops do, for meshes of any size. `KeepsExactlyD` and `KeepsTheOutbound` are
the other two. The inductive invariant is

    IInv = TypeOK /\ Listed /\ ChosenOrder /\ InnerOrder
           /\ Bubbling /\ Reserving /\ Pruning

`Listed` says that the array still lists the mesh, each peer once: a rotation only
permutes. `Bubbling` is the invariant of the first loop: the selection has not changed, and
up to `i` the outbound peers come first (`Split`). `ihave` may end above zero, as the loop
starts at the second peer, hence `<=`. `Reserving` is that of the second: each rotation
took in one outbound peer and dropped one that is not (`Exchanged`). `InnerOrder`, that
rotations leave those that are not outbound in their order, is needed since the
specification says which peers are dropped and not only how many. `Dout <= D` is assumed,
as the defaults of libp2p-gossipsub have it; js-waku sets none of these itself.

**RelayLifecycleProofs.** `TimersStaySound` is `OneTimer`. `TimerOfStarted`, that
there is a `_heartbeatTimer` exactly while the router is started, is inductive by
itself, starts of a running router and restarts from within a heartbeat included;
under it `Sound` is equivalent to `OneHeld`, which counts nothing. For delivery the invariant is

    DeliveryInv = Shape /\ KeysAtReceipt /\ ClearBeforePending /\ ClearInOrder /\ CallsBounded

`ClearInOrder` is not inductive alone: `ClearBeforePending` adds that no clear message
that was delivered is younger than one still being decoded. `CallsBounded` is: the two calls
that a resolved decode may add are the ones it counted as pending. It gives
`DeliveryTypeCorrect`, `KeysOfReceipt`, `ClearStaysInOrder` for `RelayObservers` and
`CallsStayBounded` for `RelayLifecycle`.

**StoreQueryProofs.** `QueryImplementsHistory` is the refinement of `StoreHistory`,
and `QueryTypeCorrect`, `ReturnsItsPages`, `NothingTwice`, `ForwardInOrder` the
invariants. The inductive invariant is

    IInv    = Types /\ Content /\ Order
    Content = Collected /\ UpToCursor /\ PageInHand
    Order   = TakenOnce /\ PageOrder /\ ForwardOrder

`UpToCursor` says that what was delivered lies before the cursor and is all that is
owed there; `PageInHand`, that the page being decoded reaches exactly to some message `f`, to
which the abstract frontier moves when the page ends. It is needed since the
reply is long gone when its page is delivered, and messages were stored and pruned
meanwhile. `PageOrder` bounds how far a decrypted message can be late within its
page, from which `ForwardOrder` follows across pages. A reply is the first so many
messages beyond the cursor; that a first one exists is the well-foundedness of strict
inclusion of finite sets (`FirstOfFacts`). `PagesAdvance`, also from `PageInHand`, is the
safety half of `Terminates`: a query that asks again asks beyond its last cursor, so that
backward it asks no more often than there are messages; forward it may go on for as long as
messages are stored, which `MaxMessages` bounds.

**WakuNodeProofs.** `IInv` is the shape of the state with `NoLeakedInterval`,
`TimersExact` (`KeptAlive` for the timers that the code switches on, and none of the others)
and two facts about pushes. `StopEffect` and `StartEffect` are the effects of the two handlers.
The bounds that `TypeOK` puts on the intervals are not assumed: an interval too
many is what is to be excluded, and it follows from the maps and the intervals
agreeing before each step, which is why `StartEffect` and `StopEffect` rest on
`NoLeakedInterval`. From it follow `NoIntervalLeaks`, `PushesHonest`, and `KeepsAlive`
under the hypothesis `ZeroAsDefault`: zero is given only for an option whose default is
zero too. Without it the theorem is false, by finding 3.
`NodeTypeCorrect`, with the bounds on the intervals, follows then from `TInv`, which adds
that a push under way uses a connected peer unless its stream has been broken.

**ProtobufProofs.** About one level of nesting, for every type, that is every list of fields
with distinct numbers and names, and every message of it (`Is`): decode gives back what encode
took (`DecodedAsEncoded`), and also from the encodings of other implementations
(`DecodedFromAnother`); fromJSON gives back what toJSON was given, up to the enumerations
(`KeptByJSON`); fromPartial makes a whole message (`Completed`). Each takes the same of the
embedded messages as its hypothesis. Both of decode follow from `Decoded`: what counts
of the bytes is, for each field, the sequence of its occurrences (`Occurrences`), and of that
only the last element, unless the field is repeated. `FlattenSeq`, with which encode and
decode are put together, is defined by recursion: the lemmas at the start get from the
recursive function behind it what is needed of it, its value at one more element. The
inductions go over a set of numbers or of lengths (`Induct`, `SeqInduct`): that every
number is in it follows from `<` being well-founded.

**MessageCodecProofs.** About `clearEncode` and `clearDecode`: `PaddingFills` (the padding
is never empty and fills the buffer), `ClearRoundTrip` (below 2^24 bytes, what is encoded
is decoded, signed or not), `LongPayloadLost` (from 2^24 on it never is: the width 4
sets the signed bit and leaves zero in the two bits of the mask).

About the wire: `AtDepth0` to `AtDepth3` discharge the hypotheses of `ProtobufProofs`, each
depth by the one below, so that nothing is left to assume of any type. What a message of each of
the types is, and what JSON keeps of it, is then said field by field (`IndexAt0` to
`PushRPCAt3`). `MessageIs`, `RequestIs`, `QueryIs`, `PushAnswerIs` and `StoreAnswerIs` show
that whatever is sent is a whole message of its type, the last of them by way of
fromPartial, which completes what a peer left out.

About the nodes: `NothingLostOnTheWire` (`RoundTrip`), `NothingLostInJSON` (`JsonKeeps`),
`ReadableByThose` (`ReadableExactly`) and `ReadsWhatWasWritten` (`Authentic`), for any message,
keys, queries, answers and number of packets. The invariant (`CodecInvariance`) is

    IInv = symmetric \in [Site -> ...] /\ DOMAIN hand = Site
           /\ Held /\ Travelling /\ ReadRight /\ AllProper

`Held` and `Travelling` say that whatever a node holds, or a packet carries, is the
message the author made, or that message after somebody decrypted it, and nothing
else. `AllProper` says of every packet that it holds a whole message of its type, in one of
the `Encodings` of it, and in that the message it carries, and of queries that they have a
direction. None of this is inductive alone: what a peer passes on is a message only
because what it took it from is one, and it is the author's only because `Unwrap` gave back
what was wrapped. `DecodeReads` composes the other layers: `SymmetricLayout`, `OpensSymmetric` and
`OpensAsymmetric` are the layout of `browser.ts` and `node.ts` read by either of them,
whatever keys are tried before the right one, and inside is `ClearRoundTrip`.

**ExamplesProofs.** Of the pages of eth-pm `PageTypeCorrect`, `RecipientsAreSigned` and
`NeverShownTwice`, from

    IInv = TypeOK /\ RecipientsSigned /\ OneObserver /\ PendingNotShown /\ ShownOnce

`OneObserver`, that the observers are those of the last run of the effects, makes
the clean-up exact; `PendingNotShown`, that a message whose decode or decryption is pending
has not been shown and is pending once, makes the step that shows it the first.

Of the chat, `ChatTypeCorrect`; `NoLateRetrieval`, by `Registered` (the listener and
the observer are those of the last run of the effects, never both); and
`HistoryIsKept`, whose steps say of each action that the list of messages grows at its end
(`StepStays`). That the constants of `WebChat` are numbers is `ChatAssumption`.
`PagesApart` carries them over to `MCExamples`, where either page may be open.

**Only model-checked.** Liveness (`FanoutExpires`, `Served`, `Terminates`,
`StopsTimers`, `Starts`), which is out of the prover's reach. Every other property of a run
that holds is also a theorem.

## 5. Not modelled

* Cryptography and bytes: ciphers and signatures are ideal, varints and UTF-8 are
  taken to work; HTTP (`discovery.ts`: one request and a walk through its answer, of
  which `WakuNode` has both outcomes).
* Content topic and time filters of a store query: the peer applies them, the codec
  carries them.
* Peer exchange (`_makePrune`) reads the topic's peers and changes no state; and the
  parts of the heartbeat that clear libp2p-gossipsub's own bookkeeping (`peerhave`,
  `iasked`, IWANT penalties, direct connects).
* The nim-waku test harness: it starts a process and reads its log.
* `min-react-js-chat` has one observer and no other state; `store-reactjs-chat` polls
  `queryHistory` by a timer, and replaces its list by whichever query ends last.
* In the examples: sending a private message (it reads the collected keys, which is
  what `RecipientsSigned` is about), peer statistics, saving a key pair, the commands, nick
  and input field of the chat.

## 6. What could be added

* Theorems about the steps behind the other liveness properties, as `PagesAdvance` is
  for a query.
* The overlapping polls of `store-reactjs-chat`, on top of `StoreQuery`.
* Several topics in `RelayMesh`, for the score cache they share.

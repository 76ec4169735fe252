SPECIFICATION Spec
CONSTANTS
  Peer = {p1}
  Message = {m1}
  AnyPeer = any
  NoPeer = none
  Undefined = undefined
  PingKeepAlive = 5
  RelayKeepAlive = 0
  DefaultPing = 0
  DefaultRelay = 300
  Topic = {default, custom}
  PubSubTopic = undefined
  DefaultPubSubTopic = default
  MaxConns = 2
INVARIANT ZeroDisables
CHECK_DEADLOCK FALSE

SPECIFICATION Spec
CONSTANTS
  Peer = {p1}
  Message = {m1}
  AnyPeer = any
  NoPeer = none
  Undefined = undefined
  PingKeepAlive = 5
  RelayKeepAlive = undefined
  DefaultPing = 0
  DefaultRelay = 300
  Topic = {default, custom}
  PubSubTopic = custom
  DefaultPubSubTopic = default
  MaxConns = 2
INVARIANT OneTopic
CHECK_DEADLOCK FALSE

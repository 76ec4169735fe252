SPECIFICATION Spec
CONSTANTS
  Peer = {p1, p2}
  Message = {m1, m2}
  AnyPeer = any
  NoPeer = none
  Undefined = undefined
  PingKeepAlive = 5
  RelayKeepAlive = undefined
  DefaultPing = 0
  DefaultRelay = 300
  Topic = {default, custom}
  PubSubTopic = undefined
  DefaultPubSubTopic = default
  MaxConns = 2
INVARIANTS TypeOK NoLeakedInterval KeptAlive PushOutcome
PROPERTY StopsTimers
CHECK_DEADLOCK FALSE

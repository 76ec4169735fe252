SPECIFICATION Spec
CONSTANTS
  p1 = p1
  p2 = p2
  p3 = p3
  Peer = {p1, p2, p3}
  Direct = {p3}
  Outbound = {p3}
  Scores <- MCScores
  PublishThreshold <- MCPublishThreshold
  OppThreshold = 1
  D = 1
  Dlo = 1
  Dhi = 1
  Dscore = 1
  Dout = 1
  OppTicks = 2
  OppPeers = 1
  FanoutTTL = 1
INVARIANTS TypeOK MeshIsLinked FanoutHasClock
PROPERTIES HalfOpenOnlyByResubscribe BackoffRespected DirectOnlyByPromotion HeartbeatRepairs FanoutRefilled FanoutExpires

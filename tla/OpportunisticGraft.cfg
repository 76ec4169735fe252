SPECIFICATION Spec
CONSTANTS
  p1 = p1
  p2 = p2
  p3 = p3
  Peer = {p1, p2, p3}
  Direct = {}
  Outbound = {p3}
  Scores <- MCScores
  PublishThreshold <- MCPublishThreshold
  OppThreshold = 1
  D = 2
  Dlo = 2
  Dhi = 2
  Dscore = 1
  Dout = 1
  OppTicks = 2
  OppPeers = 1
  FanoutTTL = 1
PROPERTY OpportunisticGraft

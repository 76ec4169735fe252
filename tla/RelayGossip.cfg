SPECIFICATION GossipSpec
CONSTANTS
  p1 = p1
  p2 = p2
  Peer <- MCPeer
  Direct = {}
  Outbound = {p2}
  Scores <- MCScores
  PublishThreshold <- MCThreshold
  OppThreshold = 1
  D = 1
  Dlo = 1
  Dhi = 1
  Dscore = 1
  Dout = 0
  OppTicks = 1
  OppPeers = 1
  FanoutTTL = 1
  Message = {m1, m2}
  Self = self
  GossipThreshold <- MCThreshold
  Dlazy = 1
  GossipShare = 4
  MaxIHaveLength = 1
  HistoryGossip = 2
  HistoryLength = 2
INVARIANT IHaveBounded
PROPERTY MeshToldOnlyForFanout
SYMMETRY MessageSymmetry

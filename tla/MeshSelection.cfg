SPECIFICATION Spec
CONSTANTS
  p1 = p1
  p2 = p2
  p5 = p5
  p3 = p3
  p4 = p4
  Peer = {p1, p2, p5, p3, p4}
  Outbound = {p3, p4, p5}
  Score = {0, 1, 2}
  D = 3
  Dhi = 3
  Dscore = 2
  Dout = 2
INVARIANTS KeepsD KeepsOutbound SelectionAsInMesh
CHECK_DEADLOCK FALSE

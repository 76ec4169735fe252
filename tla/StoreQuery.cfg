SPECIFICATION Spec
CONSTANTS
  clear = clear
  mine = mine
  foreign = foreign
  broken = broken
  Clear = clear
  Mine = mine
  Foreign = foreign
  Broken = broken
  Kind <- MCKind
  Peer = {s1}
  AnyPeer = any
  Forward = forward
  Backward = backward
  PageSizes = {1, 2, 3}
  ServerMax = 2
  MaxMessages = 3
INVARIANTS TypeOK ResultIsPages NoDuplicates ForwardOrder
PROPERTIES ImplementsHistory Terminates

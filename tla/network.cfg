SPECIFICATION Spec
CONSTANTS
  n1 = n1
  n2 = n2
  Node <- MCNode
  Conn = {c1, c2}
  Persistent = n1
  Cap = 2
  Bounds <- MCBounds
INVARIANTS
  TypeOK
  NothingDropped
  HeldOnce
PROPERTIES
  
  EstablishedLasts
  EventuallyConnected
  RemovedNodesLeave

SPECIFICATION Spec
CONSTANTS
  None = None
  t1 = t1
  t2 = t2
  Slots <- HalfBytes
  Tries <- MCTries
  Keys <- MCKeys
  Values = {4, 6, 17, 20, 40}
  Bounds <- MCBounds
INVARIANTS
  TypeOK
  Canonical
  EveryGetAnswers
  BlocksReadable
  ProofsVerify
PROPERTIES
  ImplementsStore
CHECK_DEADLOCK FALSE

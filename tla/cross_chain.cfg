SPECIFICATION Spec
CONSTANTS
  s1 = s1
  s2 = s2
  s3 = s3
  s4 = s4
  s5 = s5
  p1 = p1
  p2 = p2
  first = first
  second = second
  Server <- MCServer
  Lock <- MCLock
  Parser <- MCParser
  Amount <- MCAmount
  Setups <- MCSetups
  PayInterval = 1
  FlushInterval = 1
  FlushLimit = 2
SYMMETRY MCSymmetry
CHECK_DEADLOCK FALSE
INVARIANTS
  TypeOK
  PaidOnce
  PaymentsVerified
  Accounted
  NoneLeftDue
  QuietMeansPaid
PROPERTIES
  AuthoritiesApproved

CONSTANTS
  N = 3
  Step = 2
  MaxView = 1
  MaxClock = 2
  MaxExpire = 2
  Restarting = {0}
  Payloads = {TRUE}
SPECIFICATION MCSpec
INVARIANT TypeOK
INVARIANT SharedPast
PROPERTY ImplementsLedger

CONSTANTS
  N = 4
  Step = 3
  MaxView = 0
  MaxClock = 3
  MaxExpire = 0
  Restarting = {}
  Payloads = {TRUE}
SPECIFICATION MCSpec
INVARIANT NoForkInView

CONSTANTS
  N = 4
  Step = 1
  MaxView = 1
  MaxClock = 1
  MaxExpire = 1
  Restarting = {0}
  Payloads = {TRUE}
SPECIFICATION DecidedSpec
INVARIANT OneRunPending

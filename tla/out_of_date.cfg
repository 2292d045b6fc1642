CONSTANTS
  N = 4
  Step = 1
  MaxView = 1
  MaxClock = 2
  MaxExpire = 0
  Restarting = {}
  Payloads = {TRUE}
SPECIFICATION CommittedSpec
INVARIANT MismatchMeansOutOfDate

CONSTANTS
  N = 4
  Step = 3
  MaxView = 0
  MaxClock = 2
  MaxExpire = 0
  Restarting = {}
  Payloads = {TRUE, FALSE}
SPECIFICATION FairSpec
PROPERTY Progress

CONSTANTS
  N = 4
  Step = 1
  MaxView = 1
  MaxClock = 2
  MaxExpire = 1
  Restarting = {1}
  Payloads = {TRUE}
SPECIFICATION InsideSpec
INVARIANT BlocksCertified
INVARIANT CommitsPrepared
INVARIANT SequenceInView
INVARIANT NewViewLed
INVARIANT OneDecision

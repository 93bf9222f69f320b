\* A request, its suspension and the decision on it, under fairness.
CONSTANTS
  Calls = {c1, c2}
  Ids = {a1}
  allowed = allowed
  gated = gated
  forbidden = forbidden
  Intentions <- MCIntentions
  Effect <- MCEffect
  MaxSteps = 2
  SessionTtl = 1
  MaxClock = 2
  Faults = {"crash", "audit", "session"}
  NoApproval = NoApproval
  NoIntention = NoIntention
SPECIFICATION FairSpec
PROPERTY CallsEnd
CHECK_DEADLOCK FALSE

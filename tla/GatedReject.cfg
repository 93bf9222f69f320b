\* A request, its suspension and two decisions on it.
CONSTANTS
  Calls = {c1, c2, c3}
  Ids = {a1}
  allowed = allowed
  gated = gated
  forbidden = forbidden
  Intentions <- MCIntentions
  Effect <- MCEffect
  MaxSteps = 2
  SessionTtl = 1
  MaxClock = 2
  Faults = {"crash", "audit", "session"}
  NoApproval = NoApproval
  NoIntention = NoIntention
SPECIFICATION Spec
INVARIANT RejectedNeverRan
CHECK_DEADLOCK FALSE

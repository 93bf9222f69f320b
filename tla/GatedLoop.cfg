\* Three handler invocations and two approval ids: a request, and two
\* concurrent decisions on what it suspends, or a second request.
CONSTANTS
  Calls = {c1, c2, c3}
  Ids = {a1, a2}
  allowed = allowed
  gated = gated
  forbidden = forbidden
  Intentions <- MCIntentions
  Effect <- MCEffect
  MaxSteps = 2
  SessionTtl = 1
  MaxClock = 2
  Faults = {"crash", "audit", "session"}
  NoApproval = NoApproval
  NoIntention = NoIntention
SPECIFICATION Spec
SYMMETRY Symmetry
INVARIANTS
  TypeOK
  NoStepTwice
  SessionAwaitsDecision
  OnePlacePerRun
  DispatchedWasDecided
  ResultsAreTheExecutions
  AuditFollowsTheAnswers
  StepsAreBounded
PROPERTIES
  ApprovedFromPendingOnly
  ImplementsGate
CHECK_DEADLOCK FALSE

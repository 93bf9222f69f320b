SPECIFICATION Spec
CONSTANTS
  Calls = {c1}
  Services <- MCServices
  Plans <- MCPlans
  c1 = c1
PROPERTIES
  FailsOnlyByTheDevice
CHECK_DEADLOCK FALSE

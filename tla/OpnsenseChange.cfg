SPECIFICATION FairSpec
CONSTANTS
  Calls = {c1, c2}
  Services <- MCServices
  Plans <- MCPlans
  c1 = c1
  c2 = c2
INVARIANTS
  TypeOK
  NoSilentStagedChange
  RestorePointPredatesChange
PROPERTIES
  FunctionsReturn
CHECK_DEADLOCK FALSE

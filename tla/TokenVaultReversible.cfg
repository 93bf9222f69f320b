SPECIFICATION Spec
CONSTANTS
  Numerals <- MCNumerals
  Requests <- MCRequests
  Results <- MCResults
  Private <- MCPrivate
  MaxSteps = 3
INVARIANTS
  TextsAreReversible
CHECK_DEADLOCK FALSE

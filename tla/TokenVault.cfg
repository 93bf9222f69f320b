SPECIFICATION Spec
CONSTANTS
  Numerals <- MCNumerals
  Requests <- MCRequests
  Results <- MCResults
  Private <- MCPrivate
  MaxSteps = 3
INVARIANTS
  TypeOK
  VaultIsABijection
  KnownValuesAreHidden
  UnambiguousTextsAreReversible
  TargetsAreTheValuesOfTokens
PROPERTIES
  TokensKeepTheirMeaning
CHECK_DEADLOCK FALSE

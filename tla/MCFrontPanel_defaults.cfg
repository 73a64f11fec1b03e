SPECIFICATION Spec
CONSTANTS
  Offered <- NoField
  Arg <- MCArg
  Passbands <- MCPassbands
  VfoCalls = FALSE
  MaxCalls = 1
INVARIANTS DefaultFilters
CHECK_DEADLOCK FALSE

SPECIFICATION Spec
CONSTANTS
  Offered <- NoField
  Arg <- MCArg
  Passbands <- MCPassbands
  VfoCalls = TRUE
  MaxCalls = 5
INVARIANTS PassbandKept RightFilter
CHECK_DEADLOCK FALSE

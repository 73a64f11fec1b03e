SPECIFICATION Spec
CONSTANTS
  Offered <- AllFields
  Arg <- MCArg
  Passbands <- MCPassbands
  VfoCalls = TRUE
  MaxCalls = 2
INVARIANTS PanelTypeOK LastCallWins
CHECK_DEADLOCK FALSE

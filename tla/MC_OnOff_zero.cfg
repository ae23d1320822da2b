SPECIFICATION Spec
CONSTANTS
  ChangeTime = 3
  AssertsEnabled = FALSE
INVARIANT
  GrantPositive

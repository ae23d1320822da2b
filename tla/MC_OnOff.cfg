SPECIFICATION Spec
CONSTANTS
  ChangeTime = 36
  AssertsEnabled = FALSE
INVARIANTS

  TimerChain
  TxopWithinOnPeriod
  CallWaitsForStart
PROPERTIES
  ImplementsDutyCycle
  CallEventuallyServed

CONSTANTS
  Category = "Cat4"
  DeferTime = 2
  SlotTime = 2
  MaxBusy = 2
  Cat3ContentionWindow = 0
  Cat4MinCw = 1
  Cat4MaxCw = 3
  CwWidth = 4
  RetryLimit = 1
  Cat4CwUpdateRule = "ANY_NACK"
  MaxFeedback = 1
  MacMayCancel = TRUE
  AssertsEnabled = FALSE
  InitializedBeforeRun = TRUE
SPECIFICATION Spec
INVARIANT
  TypeOK
  CwWithinBounds
PROPERTIES
  WindowDoublesOnFailure
  BackoffNeverRewound
\* A fatal error (NS_FATAL_ERROR) reached after Cancel () ends the simulation.
CHECK_DEADLOCK FALSE
CONSTRAINT MC_EventsBound

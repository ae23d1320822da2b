CONSTANTS
  Category = "Cat3"
  DeferTime = 2
  SlotTime = 2
  MaxBusy = 3
  Cat3ContentionWindow = 2
  Cat4MinCw = 1
  Cat4MaxCw = 3
  CwWidth = 4
  RetryLimit = 0
  Cat4CwUpdateRule = "ANY_NACK"
  MaxFeedback = 0
  MacMayCancel = TRUE
  AssertsEnabled = FALSE
  InitializedBeforeRun = TRUE
SPECIFICATION Spec
INVARIANT ListenBeforeTalk
CHECK_DEADLOCK FALSE
CONSTRAINT MC_EventsBound

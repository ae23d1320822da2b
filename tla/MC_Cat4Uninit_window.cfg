CONSTANTS
  Category = "Cat4"
  DeferTime = 2
  SlotTime = 2
  MaxBusy = 2
  Cat3ContentionWindow = 0
  Cat4MinCw = 1
  Cat4MaxCw = 7
  CwWidth = 4
  RetryLimit = 1
  Cat4CwUpdateRule = "ANY_NACK"
  MaxFeedback = 2
  MacMayCancel = FALSE
  AssertsEnabled = FALSE
  InitializedBeforeRun = FALSE
SPECIFICATION Spec
PROPERTY WindowDoublesOnFailure

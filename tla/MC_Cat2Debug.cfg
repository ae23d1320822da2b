CONSTANTS
  Category = "Cat2"
  DeferTime = 4
  SlotTime = 2
  MaxBusy = 5
  Cat3ContentionWindow = 0
  Cat4MinCw = 1
  Cat4MaxCw = 3
  CwWidth = 4
  RetryLimit = 0
  Cat4CwUpdateRule = "ANY_NACK"
  MaxFeedback = 0
  MacMayCancel = FALSE
  AssertsEnabled = TRUE
  InitializedBeforeRun = FALSE
SPECIFICATION Spec
INVARIANTS
  TimerDiscipline
  ListenBeforeTalk
  NoUnsolicitedCallback
  NoFault
PROPERTY
  ImplementsChannelAccess

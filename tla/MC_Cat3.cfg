CONSTANTS
  Category = "Cat3"
  DeferTime = 2
  SlotTime = 2
  MaxBusy = 3
  Cat3ContentionWindow = 2
  Cat4MinCw = 1
  Cat4MaxCw = 3
  CwWidth = 4
  RetryLimit = 0
  Cat4CwUpdateRule = "ANY_NACK"
  MaxFeedback = 0
  MacMayCancel = FALSE
  AssertsEnabled = FALSE
  InitializedBeforeRun = FALSE
SPECIFICATION FairSpec
INVARIANTS
  TypeOK
  TimerDiscipline
  ListenBeforeTalk
  NoUnsolicitedCallback
  NoFault
  BackoffZeroWhenIdle
PROPERTY
  BackoffNeverRewound
  ImplementsChannelAccess
  RequestEventuallyAnswered

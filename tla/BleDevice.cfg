SPECIFICATION FairSpec
CONSTANTS
  Builds = {"SINGLE", "MULTI"}
  SLAVE_MAX_NUM = 2
  BLE_TASK_SEM_TIME = 2
  StepsMayFail = TRUE
  MaxEvents = 3
INVARIANTS
  TypeOK
  NoSleepOnWork
  NothingMissed
  LedShowsLink
  ServicesTile
  ReadsWhatWasDeclared
PROPERTIES
  EventsHandled
  TimerServed
CHECK_DEADLOCK FALSE

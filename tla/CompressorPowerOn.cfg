SPECIFICATION Spec
CONSTANTS
  Temps = {0, 3, 4}
  Err = Err
  Limits <- OneLimit
  LockValues = {"LOCK", "UNLOCK"}
  MaxDispatch = 2
  QueueSize = 8
  MaxBurst = 2
  Prompt = TRUE
  DisplayPut = {TRUE}
  WorkTicks = 5
  WaitTicks = 3
  RestTicks = 4
  PwrWaitTicks = 2
  Horizon = 6
PROPERTIES PowerOnWait

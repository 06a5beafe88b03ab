SPECIFICATION Spec
CONSTANTS
  Temps = {0, 3, 4}
  Err = Err
  Limits <- AllLimits
  LockValues = {"UNLOCK"}
  MaxDispatch = 2
  QueueSize = 4
  MaxBurst = 2
  Prompt = TRUE
  DisplayPut = {TRUE}
  WorkTicks = 4
  WaitTicks = 2
  RestTicks = 3
  PwrWaitTicks = 1
  Horizon = 5
INVARIANTS BoundedRun NothingLost ShownIsPower
PROPERTIES RestartGap

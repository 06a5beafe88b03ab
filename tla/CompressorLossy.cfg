SPECIFICATION FairSpec
CONSTANTS
  Temps = {0, 4}
  Err = Err
  Limits <- OneLimit
  LockValues = {"LOCK", "UNLOCK"}
  MaxDispatch = 2
  QueueSize = 2
  MaxBurst = 1
  Prompt = FALSE
  DisplayPut = {TRUE, FALSE}
  WorkTicks = 1
  WaitTicks = 1
  RestTicks = 1
  PwrWaitTicks = 1
  Horizon = 0
INVARIANTS TypeOK LockedIsOff WakeupPending ReadingIsActedOn
PROPERTIES WarmIsCooled ColdIsLeftAlone

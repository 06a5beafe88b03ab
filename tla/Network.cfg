SPECIFICATION FairSpec
CONSTANTS
  QueueSize = 4
  ErrMax = 3
  InitErrMax = 2
INVARIANTS PollingGoesOn OnlineIsInitialised
PROPERTIES InitEnds

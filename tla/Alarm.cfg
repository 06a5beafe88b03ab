SPECIFICATION FairSpec
CONSTANTS
  Sampled = {"temperature"}
  Values = {0, 4}
  Err = 141
  Ranges <- TwoRanges
  LockValues = {"LOCK"}
  Confirm = 2
  QueueSize = 2
  MaxDispatch = 1
  None = None
INVARIANTS ShownIsCurrent ErrorReportedOnce
PROPERTIES SettledIsAccepted

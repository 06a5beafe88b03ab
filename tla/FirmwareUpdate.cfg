SPECIFICATION FairSpec
CONSTANTS
  Firmwares = {0, 1, 2}
  FwPages <- Growing
  Pages = 5
  Block = 2
INVARIANTS AppIsWhole RollbackIsWhole OnlyConfirmedStays
PROPERTIES UpdateEnds

SPECIFICATION FairSpec
CONSTANTS
  QueueSize = 2
  HalSize = 1
  FaultSize = 2
  MaxFaults = 3
  MaxInits = 2
  Sizes = {3}
  PageSize = 2
  Width = 8
INVARIANTS ChainGoesOn FaultIsDue FaultsInOrder OneChain UpgradeIsAsked DownloadFits
PROPERTIES FaultsArrive Activates
CHECK_DEADLOCK FALSE

SPECIFICATION FairSpec
CONSTANTS
  HandleMax = 2
  HandleBase = 10
  WifiIds = {1, 2}
  Hosts = {h1, h2}
  RspSize = 3
  None = None
  MaxLeaks = 2
INVARIANTS TypeOK GivenBack ReceivesItsOwn OwnServer NoPartIsSuccess
PROPERTIES RequestEnds

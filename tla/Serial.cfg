SPECIFICATION FairSpec
CONSTANTS
  Tasks = {t1, t2, t3}
  RxSize = 2
  TxSize = 2
  Modulus = 8
  Limit = 6
INVARIANTS ReceiverAwake TransmitterAwake
PROPERTIES SendDrains

CONSTANTS
  MaxInput = 1
  MaxRequest = 2
  MaxLoss = 1
  Jobs = 2
  Lengths <- Uses
SPECIFICATION FairSpec
CHECK_DEADLOCK FALSE
INVARIANTS
  OutputsNeverMix
PROPERTIES
  OutputsSettle
  InputsSettle
  PortRecovers
  LockComesBack

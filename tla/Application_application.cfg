CONSTANTS
  MaxLoss = 3
  MaxRequest = 2
SPECIFICATION FairSpec
CHECK_DEADLOCK FALSE
INVARIANTS
  LossIsPending
  RunningMeansOperating
  OnlyLostPortsAreRestarted
PROPERTIES
  PortRuns
  HandlerGoesOn
  LostPortIsTriedAgain

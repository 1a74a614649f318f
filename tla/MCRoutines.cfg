SPECIFICATION FairSpec
CONSTANTS
  Kind = {"execution", "hostJob"}
  Every <- Intervals
  End = 3
  Horizon = 1
  Flusher = {"drain"}
  MaxFaults = 1
CHECK_DEADLOCK FALSE
INVARIANTS TypeOK ChainAlive OnlyNewestWaits CurrentVersion
PROPERTIES StagedSwitches

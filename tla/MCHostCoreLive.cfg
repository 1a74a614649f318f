SPECIFICATION FairSpec
CONSTANTS
  Intent <- OneIntent
  MaxAttempts <- TwoTries
  Cancellable = {1}
  Publishing = {1}
  HasMemory = TRUE
  MaxCount = 2
  MaxFaults = 1
CHECK_DEADLOCK FALSE
INVARIANTS SettledIsQuiet ScanCovered
PROPERTIES EventuallySettled

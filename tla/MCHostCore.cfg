SPECIFICATION FairSpec
CONSTANTS
  Intent <- TwoIntents
  MaxAttempts <- OneTry
  Cancellable = {}
  Publishing = {1}
  HasMemory = FALSE
  MaxCount = 2
  MaxFaults = 1
CHECK_DEADLOCK FALSE
INVARIANTS OneLiveTask AppliedOnce
PROPERTIES NoCancelledOutcome EventuallySettled

SPECIFICATION FairSpec
CONSTANTS
  Task = {1, 2}
  Sealed = {1}
  Oversized = {2}
  MaxBatch = 2
  MaxFaults = 3
CHECK_DEADLOCK FALSE
INVARIANTS TypeOK JournalFirst OneTruth RunsOnce
PROPERTIES TerminalSettles

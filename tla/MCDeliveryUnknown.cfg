SPECIFICATION FairSpec
CONSTANTS
  MaxSeq = 3
  Poll = {p1}
  NoPoll = NoPoll
  NoSave = NoSave
  PageLimit = 2
  Window = 3
  Unusable = {"unknown"}
  MaxFaults = 0
PROPERTIES UnknownStallsOnlyItself
CHECK_DEADLOCK FALSE

SPECIFICATION FairSpec
CONSTANTS
  MaxSeq = 2
  Poll = {p1}
  NoPoll = NoPoll
  NoSave = NoSave
  PageLimit = 1
  Window = 3
  Unusable = {"invalid"}
  MaxFaults = 2
PROPERTIES EventuallyHandled
CHECK_DEADLOCK FALSE

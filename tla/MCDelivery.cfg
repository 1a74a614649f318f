SPECIFICATION Spec
CONSTANTS
  MaxSeq = 3
  Poll = {p1, p2}
  NoPoll = NoPoll
  NoSave = NoSave
  PageLimit = 2
  Window = 2
  Unusable = {"unknown"}
  MaxFaults = 1
SYMMETRY Symmetry
INVARIANTS AckedMeansHandled PollsAccepted NoSecondRun ControlsOneAtATime
CHECK_DEADLOCK FALSE

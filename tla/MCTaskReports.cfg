SPECIFICATION Spec
CONSTANTS
  Enqueue = {e1}
  Body = {b1}
  NoBody = NoBody
  Request = {r1, r2}
  Reports = {"claim", "started", "complete", "fail"}
  Moves = {"acked", "absent"}
  MaxOffers = 2
  MaxFaults = 1
SYMMETRY Symmetry
CHECK_DEADLOCK FALSE
INVARIANTS TypeOK CancellationWins StatusIsReceipt RunningIsOwned CancelRowFirst
PROPERTIES FactsStay ReviewOnlyResult

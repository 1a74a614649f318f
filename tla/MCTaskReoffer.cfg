SPECIFICATION Spec
CONSTANTS
  Enqueue = {e1}
  Body = {b1}
  NoBody = NoBody
  Request = {r1}
  Reports = {"claim", "complete"}
  Moves = {"acked", "absent"}
  MaxOffers = 2
  MaxFaults = 1
CHECK_DEADLOCK FALSE
INVARIANTS OneOffer

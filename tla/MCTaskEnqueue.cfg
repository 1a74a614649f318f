SPECIFICATION FairSpec
CONSTANTS
  Enqueue = {e1, e2}
  Body = {b1, b2}
  NoBody = NoBody
  Request = {r1}
  Reports = {"decline"}
  Moves = {"acked", "expired"}
  MaxOffers = 2
  MaxFaults = 1
CHECK_DEADLOCK FALSE
INVARIANTS EnqueuedBodyIsOffered OneOffer
PROPERTIES TerminalConverges

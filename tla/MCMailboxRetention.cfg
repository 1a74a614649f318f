SPECIFICATION Spec
CONSTANTS
  Device = {d1}
  MessageId = {m1, m2, m3}
  ByteSize = {1}
  Limit = {3}
  Cutoff <- AllCutoffs
  MaxSeq = 4
  CollectLimit = 2
  NoBody = NoBody
  NoAppend = NoAppend
  Unlimited = Unlimited
SYMMETRY Symmetry
INVARIANTS TypeOK WindowComplete MessageIdsUnique SweepComplete
PROPERTIES FloorNeverDrops ImplementsStreams

SPECIFICATION Spec
CONSTANTS
  Device = {d1, d2, d3}
  MessageId = {m1}
  ByteSize = {1}
  Limit = {1, 2}
  Cutoff <- UniformCutoffs
  MaxSeq = 1
  CollectLimit = 2
  NoBody = NoBody
  NoAppend = NoAppend
  Unlimited = Unlimited
SYMMETRY Symmetry
INVARIANTS QuotaHolds ClosedStreamIsEmpty

CONSTANTS
  k0 = k0
  k2 = k2
  k3 = k3
  Keys <- MCKeys
  Partitions <- MCPartitions
  ChannelOf <- MCChannelOf
  PartitionOf <- MCPartitionOf
  RowChanges <- MCFaulty
  Parallelism = 2
  Capacity = 3
  BatchSize = 2
  EventRows = 2
  MaxRows = 4
  Sampler = TRUE
  SinkMayFail = TRUE
SPECIFICATION Spec
INVARIANT TypeOK
INVARIANT KeyOrder
INVARIANT NoSilentLoss
INVARIANT NoDuplicate
INVARIANT PanicLosesSuffix
PROPERTY ImplementsDelivery

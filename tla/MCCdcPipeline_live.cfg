CONSTANTS
  k0 = k0
  k2 = k2
  k3 = k3
  Keys <- MCKeys
  Partitions <- MCPartitions
  ChannelOf <- MCChannelOf
  PartitionOf <- MCPartitionOf
  RowChanges <- MCFaulty
  Parallelism = 2
  Capacity = 1
  BatchSize = 2
  EventRows = 2
  MaxRows = 3
  Sampler = FALSE
  SinkMayFail = TRUE
SPECIFICATION FairSpec
INVARIANT DoneMeansDrained
PROPERTY SendUnblocks
PROPERTY EventuallySettled
PROPERTY PipelineEnds

CONSTANTS
  k0 = k0
  k2 = k2
  k3 = k3
  Keys <- MCKeys
  Partitions <- MCPartitions
  ChannelOf <- MCChannelOf
  PartitionOf <- MCPartitionOf
  RowChanges <- MCInserts
  Parallelism = 2
  Capacity = 1
  BatchSize = 2
  EventRows = 2
  MaxRows = 1
  Sampler = TRUE
  SinkMayFail = TRUE
SPECIFICATION FairSpec
PROPERTY PipelineEnds

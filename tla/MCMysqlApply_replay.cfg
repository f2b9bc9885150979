CONSTANTS
  k1 = k1
  k2 = k2
  name = name
  mail = mail
  v1 = v1
  null = null
  none = none
  Absent = none
  Default = v1
  Null = null
  Keys <- MCKeys
  Columns <- MCColumns
  FirstColumns <- MCFirstColumns
  Values <- MCValues
  Partitions <- MCOnePartition
  PartitionOf <- MCAllInOne
  OwnProducer = FALSE
  SqlMayFail = TRUE
  MaxRecords = 2
  MaxAlters = 1
  MaxKills = 1
SPECIFICATION FairSpec
INVARIANT TypeOK
INVARIANT LastChangeDecides
INVARIANT OnlyMovesLeaveRows
INVARIANT CommittedWereAttempted
INVARIANT ReplicaConverges
PROPERTY ImplementsReplica
PROPERTY EventuallyAttempted
CHECK_DEADLOCK FALSE

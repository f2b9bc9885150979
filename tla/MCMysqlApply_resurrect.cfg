CONSTANTS
  k1 = k1
  k2 = k2
  name = name
  mail = mail
  v1 = v1
  null = null
  none = none
  Absent = none
  Default = v1
  Null = null
  Keys <- MCKeys
  Columns <- MCColumns
  FirstColumns <- MCFirstColumns
  Values <- MCValues
  Partitions <- MCOnePartition
  PartitionOf <- MCAllInOne
  OwnProducer = TRUE
  SqlMayFail = FALSE
  MaxRecords = 2
  MaxAlters = 0
  MaxKills = 1
SPECIFICATION Spec
INVARIANT OnlyMovesLeaveRows
CHECK_DEADLOCK FALSE

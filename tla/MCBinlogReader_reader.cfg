CONSTANTS
  orders = orders
  users = users
  Tables <- MCTables
  Included <- MCOnlyOrders
  StartFile = 1
  StartEvent = 0
  DescMayFail = TRUE
  MaxFiles = 2
  MaxEvents = 4
  MaxAlters = 2
  MaxKills = 1
SPECIFICATION FairSpec
INVARIANT TypeOK
INVARIANT DecodedByOwnTable
INVARIANT PassedRowsForwarded
INVARIANT ReadsFromSavepoint
PROPERTY ImplementsFollowed
PROPERTY EventuallyForwarded
CHECK_DEADLOCK FALSE

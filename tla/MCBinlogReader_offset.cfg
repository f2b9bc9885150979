CONSTANTS
  orders = orders
  users = users
  Tables <- MCTables
  Included <- MCOnlyOrders
  StartFile = 1
  StartEvent = 2
  DescMayFail = FALSE
  MaxFiles = 2
  MaxEvents = 4
  MaxAlters = 1
  MaxKills = 1
SPECIFICATION Spec
INVARIANT PassedRowsForwarded
CHECK_DEADLOCK FALSE

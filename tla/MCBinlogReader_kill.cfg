CONSTANTS
  orders = orders
  users = users
  Tables <- MCTables
  Included <- MCOnlyOrders
  StartFile = 1
  StartEvent = 0
  DescMayFail = FALSE
  MaxFiles = 2
  MaxEvents = 2
  MaxAlters = 1
  MaxKills = 1
SPECIFICATION Spec
INVARIANT LostRowsAreReread
CHECK_DEADLOCK FALSE

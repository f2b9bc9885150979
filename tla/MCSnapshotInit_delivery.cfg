CONSTANTS
  orders = orders
  users = users
  items = items
  archive = archive
  Catalog <- MCCatalog
  NameOf <- MCNameOf
  IncludeTables <- MCTwo
  RowsOf <- MCTwoRows
  Parallelism = 0
  BatchSize = 2
  Sinks = {"rdkafka"}
  Earlier = Earlier
  QueueSlots = 2
  Verify <- MCVerify
  SourceMayFail = FALSE
  SinkMayFail = TRUE
  MaxChanges = 0
SPECIFICATION Spec
INVARIANT OkMeansVerified

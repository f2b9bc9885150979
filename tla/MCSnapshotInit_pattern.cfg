CONSTANTS
  orders = orders
  users = users
  items = items
  archive = archive
  Catalog <- MCCatalog
  NameOf <- MCNameOf
  IncludeTables <- MCTwo
  RowsOf <- MCRowsOf
  Parallelism = 2
  BatchSize = 2
  Sinks = {"console"}
  Earlier = Earlier
  QueueSlots = 1
  Verify <- MCVerify
  SourceMayFail = FALSE
  SinkMayFail = FALSE
  MaxChanges = 0
SPECIFICATION Spec
INVARIANT ExportedAreFollowed

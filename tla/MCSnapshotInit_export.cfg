CONSTANTS
  orders = orders
  users = users
  items = items
  archive = archive
  Catalog <- MCCatalog
  NameOf <- MCNameOf
  IncludeTables <- MCThree
  RowsOf <- MCRowsOf
  Parallelism = 2
  BatchSize = 2
  Sinks = {"rdkafka", "rskafka", "file", "append", "console"}
  Earlier = Earlier
  QueueSlots = 1
  Verify <- MCVerify
  SourceMayFail = TRUE
  SinkMayFail = TRUE
  MaxChanges = 1
SPECIFICATION FairSpec
INVARIANT TypeOK
INVARIANT OkMeansExported
INVARIANT ExportedAreFollowed
PROPERTY ImplementsExport
PROPERTY Terminates

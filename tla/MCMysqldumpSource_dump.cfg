CONSTANTS
    Symbols <- MCSymbols
    Names = {"t", "xFF"}
    Numerals = {"0", "1", "2", "3", "7.5"}
    Int64 = {"0", "1", "2", "3"}
    OneByte = {"x", ";", "n", "NUL"}
    NotUtf8 = {}
    DumpedRows <- MCDumpedRows
    Definitions <- MCDefinitions
    Statements <- MCStatements
    MaxStatements = 4
    Zipped = FALSE
    Capacity = 2
    Threads = 2
    Channels = {"c1", "c2"}
    ChannelOf <- MCChannelOf
    ChannelSize = 1
    MaxFailures = 1
SPECIFICATION FairSpec
INVARIANTS
    TypeOK
    WithinLimits
    DumpedRowsParse
    SentIsDumped
    AllRowsSent
PROPERTY
    Finishes
CHECK_DEADLOCK FALSE

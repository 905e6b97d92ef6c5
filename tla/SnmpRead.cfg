\* Each table of the reader, two reads, three SETs or changes by other faces.
SPECIFICATION ReadSpec
CONSTANTS
    Kinds <- AllKinds
    Tables <- MCTables
    NewRows <- MCNewRows
    Pdus <- MCPdus
    Indices <- MCIndices
    PageSize = 2
    MaxReads = 2
    MaxChanges = 3
INVARIANTS ReadTypeOK QuietReadIsExact OnlyWholeSets
PROPERTIES ReadReturns
CHECK_DEADLOCK FALSE

SPECIFICATION Spec
CONSTANTS
    p = p
    q = q
    x = x
    NoTxn = NoTxn
    NoRow = NoRow
    NoSyncer = NoSyncer
    Txn <- MCTxn
    Amount <- MCAmount
    Feed <- FeedCorrects
    Syncer = {s1}
    Importer = {i1}
    MaxSyncPages = 2
    ImportPending = TRUE
    MaxFaults = 2
    MaxBookEdits = 0
INVARIANTS
    NoDoubleMovementOneTab

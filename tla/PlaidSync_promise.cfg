SPECIFICATION Spec
CONSTANTS
    p = p
    q = q
    x = x
    NoTxn = NoTxn
    NoRow = NoRow
    NoSyncer = NoSyncer
    Txn <- MCTxn
    Amount <- MCAmount
    Feed <- FeedTip
    Syncer = {s1, s2}
    Importer = {i1}
    MaxSyncPages = 2
    ImportPending = TRUE
    MaxFaults = 1
    MaxBookEdits = 1
    NoAmount = NoAmount
SYMMETRY Symmetry
PROPERTIES
    KeepsPromise

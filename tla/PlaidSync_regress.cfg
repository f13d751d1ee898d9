SPECIFICATION Spec
CONSTANTS
    p = p
    q = q
    x = x
    NoTxn = NoTxn
    NoRow = NoRow
    NoSyncer = NoSyncer
    Txn <- MCTxn
    Amount <- MCAmount
    Feed <- FeedPosts
    Syncer = {s1, s2}
    Importer = {}
    MaxSyncPages = 1
    ImportPending = TRUE
    MaxFaults = 0
    MaxBookEdits = 0
PROPERTIES
    CursorNeverRegresses

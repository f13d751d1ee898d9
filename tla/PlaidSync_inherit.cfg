SPECIFICATION Spec
CONSTANTS
    p = p
    q = q
    x = x
    NoTxn = NoTxn
    NoRow = NoRow
    NoSyncer = NoSyncer
    Txn <- MCTxn
    Amount <- MCAmount
    Feed <- FeedPosts
    Syncer = {s1}
    Importer = {}
    MaxSyncPages = 3
    ImportPending = TRUE
    MaxFaults = 0
    MaxBookEdits = 0
INVARIANTS
    SuccessorInherits

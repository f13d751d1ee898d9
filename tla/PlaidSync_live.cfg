SPECIFICATION FairSpec
CONSTANTS
    p = p
    q = q
    x = x
    NoTxn = NoTxn
    NoRow = NoRow
    NoSyncer = NoSyncer
    Txn <- MCTxnX
    Amount <- MCAmount
    Feed <- FeedReturns
    Syncer = {s1, s2}
    Importer = {}
    MaxSyncPages = 1
    ImportPending = TRUE
    MaxFaults = 1
    MaxBookEdits = 0
PROPERTIES
    LockReleased
    CatchesUp

SPECIFICATION Spec
CONSTANTS
    p = p
    q = q
    x = x
    NoTxn = NoTxn
    NoRow = NoRow
    NoSyncer = NoSyncer
    Txn <- MCTxn
    Amount <- MCAmount
    Feed <- FeedPosts
    Syncer = {s1, s2}
    Importer = {i1, i2}
    MaxSyncPages = 1
    ImportPending = TRUE
    MaxFaults = 1
    MaxBookEdits = 0
SYMMETRY Symmetry
INVARIANTS
    TypeOK
    NothingLost
    ImportedOnce
    SingleFetcher
    DismissalDurable

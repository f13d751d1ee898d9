SPECIFICATION Spec
CONSTANTS
    root = root
    a1 = a1
    a2 = a2
    Unborn = Unborn
    Gone = Gone
    None = None
    Account = {root, a1, a2, a3}
    Root = root
    Seeded = {root, a1, a2}
    Request = {r1, r2}
    Drafts <- MCDrafts
    AccountEdits <- MCEdits
    MaxSplits = 3
    MaxStarts = 3
    MaxFaults = 1
SYMMETRY Symmetry
INVARIANTS
    LedgerTypeOK
    Balanced
    SingleAuthor
    NoOrphan
    AccountEditsSerial
PROPERTY
    ReconcileAtomic

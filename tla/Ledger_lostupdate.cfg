SPECIFICATION Spec
CONSTANTS
    root = root
    a1 = a1
    a2 = a2
    Unborn = Unborn
    Gone = Gone
    None = None
    Account = {root, a1, a2}
    Root = root
    Seeded = {root, a1, a2}
    Request = {r1, r2}
    Drafts <- MCTwoDrafts
    AccountEdits <- MCNoEdits
    MaxSplits = 3
    MaxStarts = 3
    MaxFaults = 0
INVARIANT
    NoLostUpdate

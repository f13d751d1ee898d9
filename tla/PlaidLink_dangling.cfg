SPECIFICATION Spec
CONSTANTS
    i1 = i1
    b1 = b1
    b2 = b2
    a1 = a1
    a2 = a2
    NoItem = NoItem
    NoLink = NoLink
    Unwritten = Unwritten
    Item = {i1}
    Bank = {b1, b2}
    Account = {a1, a2}
    Request = {r1, r2}
    Owner <- MCOwner
    Mappings <- MCMappings
    AllowLegacy = FALSE
    MaxStarts = 3
    MaxRestarts = 0
    MaxFaults = 0
INVARIANTS
    NoDanglingLink

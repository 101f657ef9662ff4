SPECIFICATION FairSpec
CONSTANTS
    Lister = {l1, l2}
    Sid = {s1}
    Obj = {o1, o2}
    None = None
    Faults = TRUE
    MaxRestarts = 1
INVARIANTS
    TypeOK
    GhostStraddlesDelete
    BusyThroughoutIsListed
    ListInv
PROPERTY DeletedVanishes

SPECIFICATION FairSpec
CONSTANTS
    Thread = {c1, c2}
    Sid = {s1}
    Obj = {o1, o2, o3}
    None = None
    Ops = {"create", "turn", "read", "delete"}
    Faults = TRUE
    MaxSessions = 8
    MaxRestarts = 1
INVARIANTS
    TypeOK
    TurnExclusion
    RegistryInv
    OneHydrator
    WaiterHasWaker
    HydrationInv
    NoStraySession
PROPERTY WaiterIsWoken
